---- MODULE Spec2Model ----
(***************************************************************************)
(* A model of the Intune settings-catalog viewer's build-time and          *)
(* query-time algorithms:                                                  *)
(*   - buildCategoryTree   (scripts/build-search-index.ts)                 *)
(*   - groupSettings       (src/lib/settings-grouping.ts)                  *)
(*   - search              (src/lib/search.ts)                             *)
(* Every algorithm is a pure function of its input.  Each has its own      *)
(* specification: Init draws the input from bounded sets and one action    *)
(* applies the function to it.                                             *)
(***************************************************************************)
EXTENDS Integers, Sequences, FiniteSets, TLC

VARIABLES
    comp,              \* which component the behaviour exercises
    pc,                \* "input" before the function ran, "done" after
    categories,        \* buildCategoryTree: the flat category list
    settingsCountMap,  \* buildCategoryTree: category id -> own setting count
    tree,              \* buildCategoryTree: [nodes, roots, mergeMap]
    settings,          \* groupSettings: the flat settings array
    grouping,          \* groupSettings: [rootSettings, childKeys, childMap]
    documents,         \* search: the loaded search index entries
    query,             \* search: the query string, a sequence of characters
    limit,             \* search: the caller's limit
    result,            \* search: the list search resolves to
    files,             \* changelog generator: the data files on disk
    lastRun,           \* changelog generator: what the last run saw and computed
    bar,               \* SearchBar: input, debounce timer, searches in flight
    loader,            \* search module: index, loadPromise, loads and callers
    build              \* build-search-index: input files, artifacts, outcome

vars == <<comp, pc, categories, settingsCountMap, tree, settings, grouping,
          documents, query, limit, result, files, lastRun, bar, loader, build>>
treeVars == <<categories, settingsCountMap, tree>>
groupVars == <<settings, grouping>>
searchVars == <<documents, query, limit, result>>
differVars == <<files, lastRun>>
barVars == <<bar>>
loaderVars == <<loader>>
buildVars == <<build>>

\* The search variables of a behaviour that does not exercise search.
SearchIdle == documents = <<>> /\ query = <<>> /\ limit = 0 /\ result = <<>>
\* The variables of the changelog generator and of the SearchBar likewise.
DifferIdle == files = <<>> /\ lastRun = <<>>
BarIdle == bar = <<>>
LoaderIdle == loader = <<>>
BuildIdle == build = <<>>

(***************************************************************************)
(* Generic sequence helpers (Array.prototype methods).                     *)
(***************************************************************************)
RECURSIVE FilterSeq(_, _)
\* Array.prototype.filter for a membership test: keep the elements in `keep`.
FilterSeq(s, keep) ==
    IF s = <<>> THEN <<>>
    ELSE IF Head(s) \in keep
         THEN <<Head(s)>> \o FilterSeq(Tail(s), keep)
         ELSE FilterSeq(Tail(s), keep)

Range(s) == {s[i] : i \in DOMAIN s}

RECURSIVE SumSeq(_)
SumSeq(s) == IF s = <<>> THEN 0 ELSE Head(s) + SumSeq(Tail(s))

\* Lexicographic three-way comparison of two sequences of ranks.
RECURSIVE LexCmp(_, _)
LexCmp(a, b) ==
    IF a = <<>> /\ b = <<>> THEN 0
    ELSE IF a = <<>> THEN -1
    ELSE IF b = <<>> THEN 1
    ELSE IF Head(a) < Head(b) THEN -1
    ELSE IF Head(a) > Head(b) THEN 1
    ELSE LexCmp(Tail(a), Tail(b))

(***************************************************************************)
(*                       C A T E G O R Y   T R E E                         *)
(***************************************************************************)

\* ---- bounds of the category inputs ----
NumCats == 3        \* categories of a general input (any parent reference)
DeepCats == 4       \* categories of a forest input (parents precede children)
MaxCount == 1       \* largest own setting count of a category

NoParent == 0       \* parentCategoryId empty / null ("!node.parentCategoryId")

\* Display names.  A display name is the string base, followed by one
\* " (label)" for every element of suffix; a label is the list of platform
\* labels that platformLabel joins with ", ".
Name(base) == [base |-> base, suffix |-> <<>>]
BaseNames == {"Bing", "Edge"}

\* platforms is a comma-separated string: it is modelled by the list of its
\* comma-separated pieces, <<>> standing for the absent or empty string.
NoPlatforms == <<>>

\* Rank of the strings that occur in display names under localeCompare
\* (alphabetical, case-insensitive at the first level).
StrRank(s) ==
    CASE s = "" -> 0
      [] s = "Android" -> 1
      [] s = "Android Enterprise" -> 2
      [] s = "AOSP" -> 3
      [] s = "Bing" -> 4
      [] s = "Edge" -> 5
      [] s = "iOS/iPadOS" -> 6
      [] s = "Linux" -> 7
      [] s = "macOS" -> 8
      [] s = "unknown" -> 9
      [] s = "Windows" -> 10
      [] OTHER -> 11

RECURSIVE RankSeq(_)
RankSeq(s) == IF s = <<>> THEN <<>> ELSE <<StrRank(Head(s))>> \o RankSeq(Tail(s))

RECURSIVE SuffixCmp(_, _)
SuffixCmp(a, b) ==
    IF a = <<>> /\ b = <<>> THEN 0
    ELSE IF a = <<>> THEN -1
    ELSE IF b = <<>> THEN 1
    ELSE LET c == LexCmp(RankSeq(Head(a)), RankSeq(Head(b)))
         IN IF c # 0 THEN c ELSE SuffixCmp(Tail(a), Tail(b))

\* a.displayName.localeCompare(b.displayName)
NameCompare(a, b) ==
    IF StrRank(a.base) < StrRank(b.base) THEN -1
    ELSE IF StrRank(a.base) > StrRank(b.base) THEN 1
    ELSE SuffixCmp(a.suffix, b.suffix)

\* p.trim() on one comma-separated piece of a platforms string.
Trim(p) ==
    CASE p = " " -> ""
      [] p = " macOS" -> "macOS"
      [] OTHER -> p

\* map[p.trim()] || p.trim()
PlatformName(p) ==
    CASE Trim(p) = "windows10" -> "Windows"
      [] Trim(p) = "macOS" -> "macOS"
      [] Trim(p) = "iOS" -> "iOS/iPadOS"
      [] Trim(p) = "android" -> "Android"
      [] Trim(p) = "androidEnterprise" -> "Android Enterprise"
      [] Trim(p) = "aosp" -> "AOSP"
      [] Trim(p) = "linux" -> "Linux"
      [] OTHER -> Trim(p)

RECURSIVE platformLabel(_)
\* platforms.map(...).filter(Boolean).join(', '): the list of non-empty labels
\* (the joined string is empty exactly when the list is).
platformLabel(platforms) ==
    IF platforms = <<>> THEN <<>>
    ELSE IF PlatformName(Head(platforms)) = ""
         THEN platformLabel(Tail(platforms))
         ELSE <<PlatformName(Head(platforms))>> \o platformLabel(Tail(platforms))

\* `${n.platforms || ''}|${n.technologies || ''}|${n.settingUsage || ''}`
metaKey(n) == <<n.platforms, n.technologies, n.settingUsage>>

\* ---- step 1: one node per category ----
\* nodeMap.set(cat.id, {...cat, children: [], settingCount: map.get(id) || 0})
MakeNode(cat, counts) ==
    [id |-> cat.id,
     displayName |-> cat.displayName,
     parentCategoryId |-> cat.parentCategoryId,
     platforms |-> cat.platforms,
     technologies |-> cat.technologies,
     settingUsage |-> cat.settingUsage,
     children |-> <<>>,
     settingCount |-> IF cat.id \in DOMAIN counts THEN counts[cat.id] ELSE 0]

CreateNodes(cats, counts) ==
    [nodes |-> [i \in DOMAIN cats |-> MakeNode(cats[i], counts)],
     roots |-> <<>>,
     mergeMap |-> <<>>]

\* ---- step 2: attach every node to its parent, or to the roots ----
IsRootRef(node) ==
    node.parentCategoryId = node.id \/ node.parentCategoryId = NoParent

AttachNode(h, i) ==
    LET node == h.nodes[i]
        p == node.parentCategoryId
    IN IF IsRootRef(node)
       THEN [h EXCEPT !.roots = Append(@, i)]
       ELSE IF p \in DOMAIN h.nodes
            THEN [h EXCEPT !.nodes[p].children = Append(@, i)]
            ELSE [h EXCEPT !.roots = Append(@, i)]

RECURSIVE AttachAll(_, _)
AttachAll(h, i) ==
    IF i > Len(h.nodes) THEN h ELSE AttachAll(AttachNode(h, i), i + 1)

\* ---- step 3: sortTree ----
RECURSIVE InsertByName(_, _, _)
\* Insert id x into the name-sorted list s after every element that does not
\* compare greater (Array.prototype.sort is stable).
InsertByName(nodes, s, x) ==
    IF s = <<>> THEN <<x>>
    ELSE IF NameCompare(nodes[Head(s)].displayName, nodes[x].displayName) <= 0
         THEN <<Head(s)>> \o InsertByName(nodes, Tail(s), x)
         ELSE <<x>> \o s

RECURSIVE SortByName(_, _)
SortByName(nodes, s) ==
    IF s = <<>> THEN <<>>
    ELSE InsertByName(nodes, SortByName(nodes, SubSeq(s, 1, Len(s) - 1)), s[Len(s)])

\* The sibling list a reference names: 0 is the root list, k > 0 the
\* children of node k.
Siblings(h, ref) == IF ref = 0 THEN h.roots ELSE h.nodes[ref].children

SetSiblings(h, ref, s) ==
    IF ref = 0 THEN [h EXCEPT !.roots = s]
    ELSE [h EXCEPT !.nodes[ref].children = s]

RECURSIVE sortTree(_, _)
RECURSIVE SortEach(_, _, _)
sortTree(h, ref) ==
    LET sorted == SortByName(h.nodes, Siblings(h, ref))
    IN SortEach(SetSiblings(h, ref, sorted), sorted, 1)
SortEach(h, s, i) ==
    IF i > Len(s) THEN h ELSE SortEach(sortTree(h, s[i]), s, i + 1)


\* ---- steps 4 and 5: deduplicateSiblings ----
RECURSIVE GroupNames(_, _, _)
\* The keys of byName in insertion order: the distinct display names of the
\* siblings, in order of first occurrence.
GroupNames(nodes, sibs, seen) ==
    IF sibs = <<>> THEN <<>>
    ELSE LET n == nodes[Head(sibs)].displayName
         IN IF n \in seen
            THEN GroupNames(nodes, Tail(sibs), seen)
            ELSE <<n>> \o GroupNames(nodes, Tail(sibs), seen \cup {n})

\* byName.get(name): the siblings of that name, in sibling order.
GroupOf(nodes, sibs, name) ==
    FilterSeq(sibs, {x \in Range(sibs) : nodes[x].displayName = name})

RECURSIVE InsertByCount(_, _, _)
\* group.sort((a, b) => b.settingCount - a.settingCount): stable, descending.
InsertByCount(nodes, s, x) ==
    IF s = <<>> THEN <<x>>
    ELSE IF nodes[Head(s)].settingCount >= nodes[x].settingCount
         THEN <<Head(s)>> \o InsertByCount(nodes, Tail(s), x)
         ELSE <<x>> \o s

\* SortByCount with the sort lost: the group stays in discovery order.
SortByCount_Unsorted(nodes, s) == s

RECURSIVE SortByCount(_, _)
SortByCount(nodes, s) ==
    IF s = <<>> THEN <<>>
    ELSE InsertByCount(nodes, SortByCount(nodes, SubSeq(s, 1, Len(s) - 1)), s[Len(s)])

allSameMeta(nodes, group) ==
    \A i \in DOMAIN group : metaKey(nodes[group[i]]) = metaKey(nodes[group[1]])

\* Absorb with the line "primary.settingCount += secondary.settingCount" lost.
Absorb_DropCount(h, primary, secondary) ==
    [h EXCEPT !.nodes[primary].children = @ \o h.nodes[secondary].children,
              !.mergeMap = (secondary :> primary) @@ @]

\* One iteration of the merge loop: primary absorbs secondary.
Absorb(h, primary, secondary) ==
    [h EXCEPT !.nodes[primary].settingCount = @ + h.nodes[secondary].settingCount,
              !.nodes[primary].children = @ \o h.nodes[secondary].children,
              !.mergeMap = (secondary :> primary) @@ @]

RECURSIVE MergeGroup(_, _, _)
MergeGroup(h, g, i) ==
    IF i > Len(g) THEN h ELSE MergeGroup(Absorb(h, g[1], g[i]), g, i + 1)

\* One iteration of the disambiguation loop.
Relabel(h, x) ==
    LET platforms == IF h.nodes[x].platforms = NoPlatforms
                     THEN <<"unknown">>
                     ELSE h.nodes[x].platforms
        label == platformLabel(platforms)
    IN IF label # <<>>
       THEN [h EXCEPT !.nodes[x].displayName.suffix = Append(@, label)]
       ELSE h

RECURSIVE DisambiguateGroup(_, _, _)
DisambiguateGroup(h, g, i) ==
    IF i > Len(g) THEN h ELSE DisambiguateGroup(Relabel(h, g[i]), g, i + 1)

\* The body of "for (const [, group] of byName)" for one group; st is
\* [h, toRemove].
ProcessGroup(st, group) ==
    IF Len(group) <= 1 THEN st
    ELSE LET g == SortByCount(st.h.nodes, group)
         IN IF allSameMeta(st.h.nodes, group)
            THEN [h |-> MergeGroup(st.h, g, 2),
                  toRemove |-> st.toRemove \cup {g[i] : i \in 2..Len(g)}]
            ELSE [h |-> DisambiguateGroup(st.h, g, 2), toRemove |-> st.toRemove]

RECURSIVE ProcessGroups(_, _, _, _)
\* byName is built from the siblings before any group is processed.
ProcessGroups(st, nodes0, sibs, names) ==
    IF names = <<>> THEN st
    ELSE ProcessGroups(ProcessGroup(st, GroupOf(nodes0, sibs, Head(names))),
                       nodes0, sibs, Tail(names))

\* DedupLevel with the splice of the merged-away nodes lost.
DedupLevel_NoSplice(h, ref) ==
    LET sibs == Siblings(h, ref)
    IN ProcessGroups([h |-> h, toRemove |-> {}], h.nodes, sibs,
                     GroupNames(h.nodes, sibs, {})).h

\* deduplicateSiblings without its recursion: group, merge or relabel, splice.
DedupLevel(h, ref) ==
    LET sibs == Siblings(h, ref)
        st == ProcessGroups([h |-> h, toRemove |-> {}], h.nodes, sibs,
                            GroupNames(h.nodes, sibs, {}))
    IN SetSiblings(st.h, ref,
                   FilterSeq(Siblings(st.h, ref), Range(sibs) \ st.toRemove))

RECURSIVE deduplicateSiblings(_, _)
RECURSIVE DedupEach(_, _, _)
deduplicateSiblings(h, ref) ==
    LET h1 == DedupLevel(h, ref)
    IN DedupEach(h1, Siblings(h1, ref), 1)
DedupEach(h, s, i) ==
    IF i > Len(s) THEN h ELSE DedupEach(deduplicateSiblings(h, s[i]), s, i + 1)

\* ---- step 7: rollUpCounts ----
RECURSIVE rollUpCounts(_, _)
RECURSIVE RollUpEach(_, _, _)
rollUpCounts(h, x) ==
    LET kids == h.nodes[x].children
        h1 == RollUpEach(h, kids, 1)
    IN [h1 EXCEPT !.nodes[x].settingCount =
            h.nodes[x].settingCount
            + SumSeq([i \in DOMAIN kids |-> h1.nodes[kids[i]].settingCount])]
RollUpEach(h, s, i) ==
    IF i > Len(s) THEN h ELSE RollUpEach(rollUpCounts(h, s[i]), s, i + 1)

\* ---- buildCategoryTree ----
buildCategoryTree(cats, counts) ==
    LET built == AttachAll(CreateNodes(cats, counts), 1)
        sorted == sortTree(built, 0)
        deduped == deduplicateSiblings(sorted, 0)
        resorted == sortTree(deduped, 0)
    IN RollUpEach(resorted, resorted.roots, 1)

\* ---- inputs ----
\* A category's key metadata, as the catalog delivers it.
Metas ==
    { [platforms |-> NoPlatforms, technologies |-> "mdm", settingUsage |-> "configuration"],
      [platforms |-> <<"windows10">>, technologies |-> "mdm", settingUsage |-> "configuration"],
      [platforms |-> <<"macOS">>, technologies |-> "mdm,appleRemoteManagement",
       settingUsage |-> "configuration"],
      [platforms |-> <<" ">>, technologies |-> "mdm", settingUsage |-> "configuration"] }

Category(i, name, parent, meta) ==
    [id |-> i, displayName |-> Name(name), parentCategoryId |-> parent,
     platforms |-> meta.platforms, technologies |-> meta.technologies,
     settingUsage |-> meta.settingUsage]

\* General inputs: NumCats categories with ids 1..NumCats in list order; a
\* parent reference is empty, any id (its own included, cycles included) or
\* the id NumCats + 1 of no category.
GeneralCategoryLists ==
    { [i \in 1..NumCats |-> Category(i, nm[i], par[i], mt[i])] :
        nm \in [1..NumCats -> BaseNames],
        par \in [1..NumCats -> 0..(NumCats + 1)],
        mt \in [1..NumCats -> Metas] }

\* Forest inputs: DeepCats categories, each a root or the child of an earlier
\* one, deep enough for a merge to bring children that merge again.
DeepMetas == {m \in Metas : m.platforms \in {<<"windows10">>, <<"macOS">>}}
ForestCategoryLists ==
    { [i \in 1..DeepCats |-> Category(i, nm[i], par[i], mt[i])] :
        nm \in [1..DeepCats -> BaseNames],
        par \in {p \in [1..DeepCats -> 0..(DeepCats - 1)] : \A i \in 1..DeepCats : p[i] < i},
        mt \in [1..DeepCats -> DeepMetas] }

NoTree == [nodes |-> <<>>, roots |-> <<>>, mergeMap |-> <<>>]

NoGrouping == [rootSettings |-> <<>>, childKeys |-> <<>>, childMap |-> <<>>]

TreeInit ==
    /\ comp = "tree"
    /\ pc = "input"
    /\ settings = <<>>
    /\ grouping = NoGrouping
    /\ SearchIdle
    /\ DifferIdle
    /\ BarIdle
    /\ LoaderIdle
    /\ BuildIdle
    /\ \/ /\ categories \in GeneralCategoryLists
          /\ settingsCountMap \in [1..NumCats -> 0..MaxCount]
       \/ /\ categories \in ForestCategoryLists
          /\ settingsCountMap \in [1..DeepCats -> 0..MaxCount]
    /\ tree = NoTree

BuildCategoryTree ==
    /\ comp = "tree"
    /\ pc = "input"
    /\ tree' = buildCategoryTree(categories, settingsCountMap)
    /\ pc' = "done"
    /\ UNCHANGED <<comp, categories, settingsCountMap, groupVars, searchVars,
                   differVars, barVars, loaderVars, buildVars>>

TreeNext == BuildCategoryTree

TreeSpec == TreeInit /\ [][TreeNext]_vars


(***************************************************************************)
(* Category tree: vocabulary of the claims.                                *)
(***************************************************************************)
CatIds == DOMAIN categories
TreeDone == comp = "tree" /\ pc = "done"

RECURSIVE ReachFrom(_, _, _)
ReachFrom(h, frontier, seen) ==
    IF frontier = {} THEN seen
    ELSE LET next == UNION {Range(h.nodes[x].children) : x \in frontier}
         IN ReachFrom(h, next \ (seen \cup frontier), seen \cup frontier)

\* The nodes of the returned forest.
Forest == ReachFrom(tree, Range(tree.roots), {})
Merged == DOMAIN tree.mergeMap
\* The categories the tree accounts for: kept in the forest or merged away.
Live == Forest \cup Merged

InputCount(x) == settingsCountMap[x]
ChildCountSum(x) ==
    SumSeq([i \in DOMAIN tree.nodes[x].children |->
               tree.nodes[tree.nodes[x].children[i]].settingCount])
MergedInto(x) == {k \in Merged : tree.mergeMap[k] = x}

RECURSIVE SumOver(_, _)
\* Sum of f over the finite set S.
SumOver(f, S) ==
    IF S = {} THEN 0
    ELSE LET x == CHOOSE y \in S : TRUE IN f[x] + SumOver(f, S \ {x})

\* own(n): the input count of n plus that of every category merged into n.
OwnCount(x) == InputCount(x) + SumOver(settingsCountMap, MergedInto(x))

\* A parent reference that makes the category a root: empty, its own id, or
\* the id of no input category.
RootLike(x) ==
    \/ categories[x].parentCategoryId = NoParent
    \/ categories[x].parentCategoryId = x
    \/ categories[x].parentCategoryId \notin CatIds

RECURSIVE ReachesRoot(_, _)
ReachesRoot(x, fuel) ==
    \/ RootLike(x)
    \/ fuel > 0 /\ ReachesRoot(categories[x].parentCategoryId, fuel - 1)

\* The parent references form a forest: no chain of references is a cycle.
AcyclicInput == \A x \in CatIds : ReachesRoot(x, Len(categories))

\* The node whose child list a live category ends in (0: the root list).
EffParent(x) ==
    IF RootLike(x) THEN 0
    ELSE LET p == categories[x].parentCategoryId
         IN IF p \in Merged THEN tree.mergeMap[p] ELSE p

\* The same-named siblings the deduplication sees together with x.
SibGroup(x) ==
    {y \in Live : EffParent(y) = EffParent(x)
                  /\ categories[y].displayName = categories[x].displayName}

SameMetaGroup(x) == \A y \in SibGroup(x) : metaKey(categories[y]) = metaKey(categories[x])

\* Discovery order of same-named siblings, stated without the algorithm:
\* roots and the children of one parent come in input order; the children a
\* merge brings together come by the rank of their declared parents among the
\* merged parents, then in input order.
RECURSIVE DiscKey(_)
RECURSIVE Precedes(_, _)
RECURSIVE PosInGroup(_)
DiscKey(x) ==
    IF RootLike(x) THEN <<x>>
    ELSE <<PosInGroup(categories[x].parentCategoryId), x>>
\* q is ranked before x in their group: larger own count, ties by discovery.
Precedes(q, x) ==
    \/ InputCount(q) > InputCount(x)
    \/ InputCount(q) = InputCount(x) /\ LexCmp(DiscKey(q), DiscKey(x)) < 0
PosInGroup(x) == 1 + Cardinality({q \in SibGroup(x) : Precedes(q, x)})

\* The member the spec makes canonical: largest own count, first discovered.
Canonical(x) == CHOOSE k \in SibGroup(x) : \A q \in SibGroup(x) : ~Precedes(q, k)

OrigName(x) == categories[x].displayName
LabelOf(x) ==
    platformLabel(IF categories[x].platforms = NoPlatforms
                  THEN <<"unknown">> ELSE categories[x].platforms)
Labelled(x) == [OrigName(x) EXCEPT !.suffix = Append(@, LabelOf(x))]

(***************************************************************************)
(* C1.  Roll-up invariant: after buildCategoryTree every node n of the     *)
(* returned forest has settingCount = own(n) + the sum of its children's   *)
(* settingCount, own(n) being n's input count plus the input counts of the *)
(* categories merged into n.                                               *)
(***************************************************************************)
C1_RollUpInvariant ==
    TreeDone =>
        \A n \in Forest :
            tree.nodes[n].settingCount = OwnCount(n) + ChildCountSum(n)

\* A node that has children with counts and absorbed a counted duplicate.
C1_Witness ==
    /\ TreeDone
    /\ \E n \in Forest :
          /\ ChildCountSum(n) > 0
          /\ \E k \in MergedInto(n) : InputCount(k) > 0
          /\ InputCount(n) > 0

(***************************************************************************)
(* C2.  For a category list whose parent references form a forest, the     *)
(* settingCount of the returned roots adds up to the input counts of all   *)
(* input categories: every count is counted exactly once.                  *)
(***************************************************************************)
RootCountSum ==
    SumSeq([i \in DOMAIN tree.roots |-> tree.nodes[tree.roots[i]].settingCount])

C2_CountsConserved ==
    (TreeDone /\ AcyclicInput) => RootCountSum = SumOver(settingsCountMap, CatIds)

\* A merged-away node whose children were merged again one level down, all
\* with counts.
C2_Witness ==
    /\ TreeDone
    /\ AcyclicInput
    /\ \E x \in Merged :
          /\ categories[x].parentCategoryId \in Merged
          /\ InputCount(x) > 0
          /\ InputCount(categories[x].parentCategoryId) > 0

(***************************************************************************)
(* C3.  buildCategoryTree never drops a category: every input category is  *)
(* a node of the returned forest or a key of mergeMap, and a category      *)
(* whose parent reference is empty, its own id or unresolvable is placed   *)
(* among the roots (where only a merge into another root removes it).      *)
(***************************************************************************)
C3_NeverDropped ==
    TreeDone =>
        /\ \A x \in CatIds : x \in Forest \/ x \in Merged
        /\ \A x \in CatIds :
              RootLike(x) =>
                  \/ x \in Range(tree.roots)
                  \/ x \in Merged /\ tree.mergeMap[x] \in Range(tree.roots)

\* The part of C3 about root-like references alone.
C3_RootLikePlaced ==
    TreeDone =>
        \A x \in CatIds :
            RootLike(x) =>
                \/ x \in Range(tree.roots)
                \/ x \in Merged /\ tree.mergeMap[x] \in Range(tree.roots)

(***************************************************************************)
(* C4.  For every group of same-named siblings of the tree with identical  *)
(* platforms, technologies and settingUsage, exactly one member is kept:   *)
(* the one with the largest own count, the first in discovery order on a   *)
(* tie.  It absorbs the counts and children of the others; mergeMap maps   *)
(* every other member directly to it; it is a node of the returned forest  *)
(* and never a key of mergeMap.                                            *)
(***************************************************************************)
C4_MergeIntoLargest ==
    TreeDone =>
        \A x \in Live :
            (Cardinality(SibGroup(x)) > 1 /\ SameMetaGroup(x)) =>
                LET k == Canonical(x)
                IN /\ k \in Forest
                   /\ k \notin Merged
                   /\ \A m \in SibGroup(x) \ {k} :
                         /\ m \in Merged
                         /\ tree.mergeMap[m] = k
                         /\ m \notin Forest
                   /\ tree.nodes[k].settingCount =
                         SumOver(settingsCountMap, SibGroup(x)) + ChildCountSum(k)
                   /\ \A y \in Forest :
                         (~RootLike(y) /\ categories[y].parentCategoryId \in SibGroup(x))
                             => y \in Range(tree.nodes[k].children)

\* Three duplicates, the largest count held by the last two (a tie), one of
\* the merged-away members bringing a child.
C4_Witness ==
    /\ TreeDone
    /\ \E x \in Live :
          /\ Cardinality(SibGroup(x)) >= 3
          /\ SameMetaGroup(x)
          /\ \E a, b \in SibGroup(x) :
                /\ a < b
                /\ InputCount(a) = InputCount(b)
                /\ \A q \in SibGroup(x) \ {a, b} : InputCount(q) < InputCount(a) /\ q < a
                /\ \E y \in Forest : categories[y].parentCategoryId = b /\ y # b

(***************************************************************************)
(* C5.  For every group of same-named siblings whose metadata is not       *)
(* identical, no member is removed and nothing is recorded in mergeMap;    *)
(* the member with the largest own count keeps its display name and every  *)
(* other member's display name becomes the name followed by its            *)
(* parenthesised platform label.                                           *)
(***************************************************************************)
C5_Kept(x) ==
    \A m \in SibGroup(x) : m \in Forest /\ m \notin Merged

C5_DisambiguateAll ==
    TreeDone =>
        \A x \in Live :
            (Cardinality(SibGroup(x)) > 1 /\ ~SameMetaGroup(x)) =>
                /\ C5_Kept(x)
                /\ tree.nodes[Canonical(x)].displayName = OrigName(x)
                /\ \A m \in SibGroup(x) \ {Canonical(x)} :
                      tree.nodes[m].displayName = Labelled(m)


(***************************************************************************)
(*                      S E T T I N G   G R O U P E R                      *)
(***************************************************************************)

\* ---- bounds of the settings inputs ----
NumSettings == 3    \* settings in the input array

NoRoot == 0         \* rootDefinitionId absent / empty ("!s.rootDefinitionId")

\* A URI is modelled by the list of its "/"-separated segments, <<>> being
\* the absent or empty string.  Setting ids and URIs are different strings:
\* no id equals an offsetUri.
NoUri == <<>>
Marker == "[{0}]"

GroupCollectionType ==
    "#microsoft.graph.deviceManagementConfigurationSettingGroupCollectionDefinition"
ChoiceType == "#microsoft.graph.deviceManagementConfigurationChoiceSettingDefinition"
TopLevelName == "Top Level Setting Group Collection"

\* s['@odata.type']?.includes('SettingGroupCollectionDefinition')
IsGroupCollection(s) == s.odataType = GroupCollectionType

getCspPath(s) ==
    IF s.baseUri # NoUri /\ s.offsetUri # NoUri
    THEN s.baseUri \o s.offsetUri
    ELSE IF s.baseUri # NoUri THEN s.baseUri ELSE s.offsetUri

isSyntheticGroupContainer(s) ==
    IsGroupCollection(s) /\ s.displayName = TopLevelName

isRootSetting(s) == s.rootDefinitionId = NoRoot \/ s.rootDefinitionId = s.id

\* settingById.get(id): the last record of that id (last write wins).
RECURSIVE LastWithId(_, _, _)
LastWithId(arr, id, i) ==
    IF i = 0 THEN 0
    ELSE IF arr[i].id = id THEN i ELSE LastWithId(arr, id, i - 1)
settingById(arr, id) == arr[LastWithId(arr, id, Len(arr))]
HasId(arr, id) == \E i \in DOMAIN arr : arr[i].id = id

\* childMap.get(k) || []
ChildGet(g, k) == IF k \in DOMAIN g.childMap THEN g.childMap[k] ELSE <<>>
\* childMap.set(k, list): a new key goes to the end of the iteration order.
ChildSet(g, k, list) ==
    [g EXCEPT !.childKeys = IF k \in Range(@) THEN @ ELSE Append(@, k),
              !.childMap = (k :> list) @@ @]
ChildPush(g, k, s) == ChildSet(g, k, Append(ChildGet(g, k), s))

\* ---- first pass: the roots ----
FirstPassStep(g, s) ==
    IF isRootSetting(s)
    THEN IF isSyntheticGroupContainer(s)
         THEN [g EXCEPT !.syntheticGroupIds = @ \cup {s.id}]
         ELSE [g EXCEPT !.rootSettings = Append(@, s), !.rootIds = @ \cup {s.id}]
    ELSE g

RECURSIVE FirstPass(_, _, _)
FirstPass(g, arr, i) ==
    IF i > Len(arr) THEN g ELSE FirstPass(FirstPassStep(g, arr[i]), arr, i + 1)

\* SecondPassStep with the final else branch lost: an orphan is not promoted.
SecondPassStep_DropOrphan(g, arr, s) ==
    IF s.rootDefinitionId # NoRoot /\ s.rootDefinitionId # s.id
    THEN IF s.rootDefinitionId \in g.syntheticGroupIds
         THEN [g EXCEPT !.rootSettings = Append(@, s), !.rootIds = @ \cup {s.id}]
         ELSE IF s.rootDefinitionId \in g.rootIds
              THEN IF /\ HasId(arr, s.rootDefinitionId)
                      /\ getCspPath(s) = getCspPath(settingById(arr, s.rootDefinitionId))
                   THEN g
                   ELSE ChildPush(g, s.rootDefinitionId, s)
              ELSE g
    ELSE g

\* ---- second pass: the children ----
SecondPassStep(g, arr, s) ==
    IF s.rootDefinitionId # NoRoot /\ s.rootDefinitionId # s.id
    THEN IF s.rootDefinitionId \in g.syntheticGroupIds
         THEN [g EXCEPT !.rootSettings = Append(@, s), !.rootIds = @ \cup {s.id}]
         ELSE IF s.rootDefinitionId \in g.rootIds
              THEN IF /\ HasId(arr, s.rootDefinitionId)
                      /\ getCspPath(s) = getCspPath(settingById(arr, s.rootDefinitionId))
                   THEN g
                   ELSE ChildPush(g, s.rootDefinitionId, s)
              ELSE [g EXCEPT !.rootSettings = Append(@, s), !.rootIds = @ \cup {s.id}]
    ELSE g

RECURSIVE SecondPass(_, _, _)
SecondPass(g, arr, i) ==
    IF i > Len(arr) THEN g ELSE SecondPass(SecondPassStep(g, arr, arr[i]), arr, i + 1)

\* ---- collection grouping ----
\* offsetUri.includes('[{0}]')
HasMarker(uri) == \E i \in DOMAIN uri : uri[i] = Marker
\* offsetUri.indexOf('/[{0}]'): the first marker segment that follows a "/",
\* 0 when there is none (indexOf < 0).
PrefixEnd(uri) ==
    IF \E i \in 2..Len(uri) : uri[i] = Marker
    THEN CHOOSE i \in 2..Len(uri) :
            uri[i] = Marker /\ \A j \in 2..(i - 1) : uri[j] # Marker
    ELSE 0
\* offsetUri.substring(0, prefixEnd)
Prefix(uri) == SubSeq(uri, 1, PrefixEnd(uri) - 1)

IsCollectionHeader(s) ==
    IsGroupCollection(s) /\ s.offsetUri # NoUri /\ ~HasMarker(s.offsetUri)

RECURSIVE CollectionHeaders(_, _, _)
\* collectionHeaders: offsetUri -> setting, the last root of that offsetUri.
CollectionHeaders(roots, i, hdrs) ==
    IF i > Len(roots) THEN hdrs
    ELSE CollectionHeaders(roots, i + 1,
            IF IsCollectionHeader(roots[i])
            THEN (roots[i].offsetUri :> roots[i]) @@ hdrs
            ELSE hdrs)

\* A setting names a header: its offsetUri has "/[{0}]" and the prefix is a key.
Matches(hdrs, s) ==
    /\ s.offsetUri # NoUri
    /\ HasMarker(s.offsetUri)
    /\ PrefixEnd(s.offsetUri) > 0
    /\ Prefix(s.offsetUri) \in DOMAIN hdrs

\* Body of the loop over rootSettings; st is [g, toRemoveFromRoot].
NestRootStep(st, hdrs, s) ==
    IF Matches(hdrs, s)
    THEN [g |-> ChildPush(st.g, hdrs[Prefix(s.offsetUri)].id, s),
          toRemoveFromRoot |-> st.toRemoveFromRoot \cup {s.id}]
    ELSE st

RECURSIVE NestRoots(_, _, _, _)
NestRoots(st, hdrs, roots, i) ==
    IF i > Len(roots) THEN st
    ELSE NestRoots(NestRootStep(st, hdrs, roots[i]), hdrs, roots, i + 1)

\* collectionHeaders.has(parentId): the map is keyed by offsetUri and no id is
\* an offsetUri.
HeadersHasId(hdrs, parentId) == FALSE

\* Body of the loop over one child list; st is [g, remaining].
NestChildStep(st, hdrs, parentId, child) ==
    IF Matches(hdrs, child) /\ hdrs[Prefix(child.offsetUri)].id # parentId
    THEN [st EXCEPT !.g = ChildPush(@, hdrs[Prefix(child.offsetUri)].id, child)]
    ELSE [st EXCEPT !.remaining = Append(@, child)]

RECURSIVE NestChildren(_, _, _, _, _)
NestChildren(st, hdrs, parentId, children, j) ==
    IF j > Len(children) THEN st
    ELSE NestChildren(NestChildStep(st, hdrs, parentId, children[j]),
                      hdrs, parentId, children, j + 1)

RECURSIVE NestChildMap(_, _, _)
\* "for (const [parentId, children] of childMap)": entries added during the
\* loop are visited too.
NestChildMap(g, hdrs, i) ==
    IF i > Len(g.childKeys) THEN g
    ELSE LET parentId == g.childKeys[i]
             children == g.childMap[parentId]
             st == NestChildren([g |-> g, remaining |-> <<>>], hdrs, parentId, children, 1)
         IN IF HeadersHasId(hdrs, parentId)
            THEN NestChildMap(g, hdrs, i + 1)
            ELSE NestChildMap(IF Len(st.remaining) # Len(children)
                              THEN ChildSet(st.g, parentId, st.remaining)
                              ELSE st.g,
                              hdrs, i + 1)

RECURSIVE RemoveIds(_, _)
\* The splice loop: drop every root whose id is in toRemoveFromRoot.
RemoveIds(roots, ids) ==
    IF roots = <<>> THEN <<>>
    ELSE IF Head(roots).id \in ids
         THEN RemoveIds(Tail(roots), ids)
         ELSE <<Head(roots)>> \o RemoveIds(Tail(roots), ids)

CollectionGrouping(g) ==
    LET hdrs == CollectionHeaders(g.rootSettings, 1, <<>>)
        st == NestRoots([g |-> g, toRemoveFromRoot |-> {}], hdrs, g.rootSettings, 1)
        g2 == NestChildMap(st.g, hdrs, 1)
    IN IF DOMAIN hdrs = {} THEN g
       ELSE [g2 EXCEPT !.rootSettings = RemoveIds(@, st.toRemoveFromRoot)]

\* ---- final sort ----
SettingNameRank(n) ==
    CASE n = "Allow" -> 1
      [] n = "Rules" -> 2
      [] n = TopLevelName -> 3
      [] OTHER -> 4

RECURSIVE InsertSetting(_, _)
\* (a.displayName || a.name || '').localeCompare(...), stable.
InsertSetting(s, x) ==
    IF s = <<>> THEN <<x>>
    ELSE IF SettingNameRank(Head(s).displayName) <= SettingNameRank(x.displayName)
         THEN <<Head(s)>> \o InsertSetting(Tail(s), x)
         ELSE <<x>> \o s

RECURSIVE SortSettings(_)
SortSettings(s) ==
    IF s = <<>> THEN <<>>
    ELSE InsertSetting(SortSettings(SubSeq(s, 1, Len(s) - 1)), s[Len(s)])

\* ---- groupSettings ----
groupSettings(arr) ==
    LET g0 == [rootSettings |-> <<>>, rootIds |-> {}, syntheticGroupIds |-> {},
               childKeys |-> <<>>, childMap |-> <<>>]
        g1 == FirstPass(g0, arr, 1)
        g2 == SecondPass(g1, arr, 1)
        g3 == CollectionGrouping(g2)
    IN [rootSettings |-> SortSettings(g3.rootSettings),
        childKeys |-> g3.childKeys,
        childMap |-> [k \in DOMAIN g3.childMap |-> SortSettings(g3.childMap[k])]]

\* ---- inputs ----
\* Kinds of setting: the synthetic container, a group collection (a header
\* when its offsetUri has no marker) and a plain setting.
SettingKinds ==
    { [odataType |-> GroupCollectionType, displayName |-> TopLevelName],
      [odataType |-> GroupCollectionType, displayName |-> "Rules"],
      [odataType |-> ChoiceType, displayName |-> "Allow"] }

\* baseUri and offsetUri: no path, a device and a user path of the same
\* offsetUri, a collection item of the device path, and an offsetUri that
\* starts with the marker (no "/[{0}]" in it).
SettingUris ==
    { [baseUri |-> NoUri, offsetUri |-> NoUri],
      [baseUri |-> <<"Device">>, offsetUri |-> <<"Firewall">>],
      [baseUri |-> <<"User">>, offsetUri |-> <<"Firewall">>],
      [baseUri |-> <<"Device">>, offsetUri |-> <<"Firewall", Marker, "Name">>],
      [baseUri |-> NoUri, offsetUri |-> <<Marker, "Name">>] }

Setting(id, root, kind, uri) ==
    [id |-> id, rootDefinitionId |-> root, odataType |-> kind.odataType,
     displayName |-> kind.displayName, baseUri |-> uri.baseUri,
     offsetUri |-> uri.offsetUri]

\* Ids are opaque: an array's ids are numbered in order of first occurrence
\* (two records may share an id).
IdLists ==
    {ids \in [1..NumSettings -> 1..NumSettings] :
        \A i \in 1..NumSettings :
            ids[i] <= 1 + Cardinality({ids[j] : j \in 1..(i - 1)})}

MaxId(ids) == CHOOSE m \in Range(ids) : \A x \in Range(ids) : x <= m

\* A rootDefinitionId is absent, an id of the array, or the id after the
\* last one, which names no setting.
GroupInit ==
    /\ comp = "group"
    /\ pc = "input"
    /\ \E ids \in IdLists :
       \E par \in [1..NumSettings -> 0..(MaxId(ids) + 1)] :
       \E kd \in [1..NumSettings -> SettingKinds] :
       \E ur \in [1..NumSettings -> SettingUris] :
          settings = [i \in 1..NumSettings |-> Setting(ids[i], par[i], kd[i], ur[i])]
    /\ grouping = NoGrouping
    /\ categories = <<>>
    /\ settingsCountMap = <<>>
    /\ tree = NoTree
    /\ SearchIdle
    /\ DifferIdle
    /\ BarIdle
    /\ LoaderIdle
    /\ BuildIdle

GroupSettings ==
    /\ comp = "group"
    /\ pc = "input"
    /\ grouping' = groupSettings(settings)
    /\ pc' = "done"
    /\ UNCHANGED <<comp, settings, treeVars, searchVars, differVars, barVars, loaderVars, buildVars>>

GroupNext == GroupSettings

GroupSpec == GroupInit /\ [][GroupNext]_vars


(***************************************************************************)
(* Setting grouper: vocabulary of the claims.                              *)
(***************************************************************************)
GroupDone == comp = "group" /\ pc = "done"
RootRows == Range(grouping.rootSettings)
ChildKeys == DOMAIN grouping.childMap
ChildrenOf(k) == Range(grouping.childMap[k])
\* Every setting the result shows, as a row or as a nested child.
Surviving == RootRows \cup UNION {ChildrenOf(k) : k \in ChildKeys}
InputSettings == Range(settings)

(***************************************************************************)
(* C6.  Dedup invariant: in the result of groupSettings, for every input   *)
(* array, no setting C is in the child list shown under a setting P when   *)
(* the configuration path of C equals the configuration path of P.  The    *)
(* child list shown under a row P is childMap.get(P.id).                   *)
(***************************************************************************)
C6_NoSamePathChild ==
    GroupDone =>
        \A p \in RootRows :
            p.id \in ChildKeys =>
                \A c \in ChildrenOf(p.id) : getCspPath(c) # getCspPath(p)

(***************************************************************************)
(* C7.  Promotion invariant: in the result of groupSettings every setting  *)
(* whose rootDefinitionId is non-empty, differs from its own id and names  *)
(* no setting of the input array, or names a synthetic container, is an    *)
(* element of rootSettings.                                                *)
(***************************************************************************)
HasParentRef(s) == s.rootDefinitionId # NoRoot /\ s.rootDefinitionId # s.id
NamesNoSetting(s) == \A q \in InputSettings : q.id # s.rootDefinitionId
NamesSynthetic(s) ==
    \E q \in InputSettings : q.id = s.rootDefinitionId /\ isSyntheticGroupContainer(q)
NamesRootSynthetic(s) ==
    \E q \in InputSettings :
        q.id = s.rootDefinitionId /\ isSyntheticGroupContainer(q) /\ isRootSetting(q)

NestedUnderHeader(s) ==
    \E k \in ChildKeys :
        /\ \E h \in InputSettings : h.id = k /\ IsCollectionHeader(h)
        /\ \E r \in ChildrenOf(k) : r.id = s.id /\ HasMarker(r.offsetUri)

FirstMarker(uri) ==
    CHOOSE i \in DOMAIN uri : uri[i] = Marker /\ \A j \in 1..(i - 1) : uri[j] # Marker
PathPrefix(s) == SubSeq(getCspPath(s), 1, FirstMarker(getCspPath(s)) - 1)
PathHeadersOf(s) ==
    {h \in RootRows : /\ IsGroupCollection(h)
                      /\ ~HasMarker(getCspPath(h))
                      /\ getCspPath(h) # NoUri
                      /\ getCspPath(h) = PathPrefix(s)}
OnlyUnder(s, h) ==
    /\ h.id \in ChildKeys
    /\ s \in ChildrenOf(h.id)
    /\ s \notin RootRows
    /\ \A k \in ChildKeys \ {h.id} : s \notin ChildrenOf(k)

C8_NestedUnderPathHeader ==
    GroupDone =>
        \A s \in Surviving :
            (HasMarker(getCspPath(s)) /\ PathHeadersOf(s) # {})
                => \E h \in PathHeadersOf(s) : OnlyUnder(s, h)

(***************************************************************************)
(*                            S E A R C H                                  *)
(***************************************************************************)

\* ---- bounds of the search inputs ----
MaxDocs == 4        \* entries in the loaded index
MaxLimit == 2       \* largest explicit limit below the default

DefaultLimit == 50  \* limit: number = 50

\* ---- strings: sequences of one-character strings ----
LowerAlphabet ==
    << "a", "b", "c", "d", "e", "f", "g", "h", "i", "j", "k", "l", "m",
       "n", "o", "p", "q", "r", "s", "t", "u", "v", "w", "x", "y", "z" >>
UpperAlphabet ==
    << "A", "B", "C", "D", "E", "F", "G", "H", "I", "J", "K", "L", "M",
       "N", "O", "P", "Q", "R", "S", "T", "U", "V", "W", "X", "Y", "Z" >>
Whitespace == {" "}
Comma == {","}
\* The characters of the model that the index encoder's /[\W_]+/ splits at.
NonWordChars == {" ", ","}

IsUpper(c) == \E i \in DOMAIN UpperAlphabet : UpperAlphabet[i] = c
LetterIndex(c) ==
    CHOOSE i \in DOMAIN LowerAlphabet : LowerAlphabet[i] = c \/ UpperAlphabet[i] = c

\* String.prototype.toLowerCase
toLowerCase(str) ==
    [i \in DOMAIN str |-> IF IsUpper(str[i]) THEN LowerAlphabet[LetterIndex(str[i])]
                                             ELSE str[i]]

\* String.prototype.startsWith
startsWith(str, t) == Len(t) <= Len(str) /\ SubSeq(str, 1, Len(t)) = t

\* String.prototype.includes
includes(str, t) ==
    \E i \in 0..(Len(str) - Len(t)) : SubSeq(str, i + 1, i + Len(t)) = t

\* String.prototype.trim
RECURSIVE trimStart(_)
trimStart(str) ==
    IF str # <<>> /\ Head(str) \in Whitespace THEN trimStart(Tail(str)) ELSE str
RECURSIVE trimEnd(_)
trimEnd(str) ==
    IF str # <<>> /\ str[Len(str)] \in Whitespace
    THEN trimEnd(SubSeq(str, 1, Len(str) - 1))
    ELSE str
trim(str) == trimEnd(trimStart(str))

\* String.prototype.split at every character of `seps` (empty pieces kept).
RECURSIVE split(_, _)
split(str, seps) ==
    IF \A i \in DOMAIN str : str[i] \notin seps THEN <<str>>
    ELSE LET k == CHOOSE i \in DOMAIN str :
                      str[i] \in seps /\ \A j \in 1..(i - 1) : str[j] \notin seps
         IN <<SubSeq(str, 1, k - 1)>> \o split(SubSeq(str, k + 1, Len(str)), seps)

\* .filter(Boolean) on a list of strings
NonEmpty(list) == SelectSeq(list, LAMBDA x : x # <<>>)

\* First n elements: Array.prototype.slice(0, n), n >= 0.
Take(list, n) == SubSeq(list, 1, IF n < Len(list) THEN n ELSE Len(list))

MaxOf(S) == IF S = {} THEN 0 ELSE CHOOSE m \in S : \A x \in S : x <= m

\* a.localeCompare(b): letters compare without case first, a space sorts before
\* every letter; names equal up to case put the lower-case letter first.
CharRank(c) ==
    IF c = " " THEN 0 ELSE IF c = "," THEN 1 ELSE 1 + LetterIndex(c)
CaseRank(c) == IF IsUpper(c) THEN 1 ELSE 0
localeCompare(a, b) ==
    LET primary == LexCmp([i \in DOMAIN a |-> CharRank(a[i])],
                          [i \in DOMAIN b |-> CharRank(b[i])])
    IN IF primary # 0 THEN primary
       ELSE LexCmp([i \in DOMAIN a |-> CaseRank(a[i])],
                   [i \in DOMAIN b |-> CaseRank(b[i])])

\* ---- the document index (FlexSearch.Document, tokenize: 'forward') ----
Fields == <<"displayName", "description", "keywords", "categoryName">>

\* The index encoder: lower-case, split at non-word characters.
encode(str) == NonEmpty(split(toLowerCase(str), NonWordChars))

\* Forward tokenizer: every word of the query is a prefix of a word of the
\* field's value.
FieldMatches(value, term) ==
    LET q == encode(term)
        v == encode(value)
    IN /\ q # <<>>
       /\ \A i \in DOMAIN q : \E j \in DOMAIN v : startsWith(v[j], q[i])

\* The ids one field reports for a term: matches in insertion order, at most
\* `lim` of them.
FieldResult(docs, field, term, lim) ==
    LET hits == SelectSeq(docs, LAMBDA d : FieldMatches(d[field], term))
    IN Take([i \in DOMAIN hits |-> hits[i].id], lim)

\* index.search(term, { limit, enrich: false })
indexSearch(docs, term, lim) ==
    [i \in DOMAIN Fields |->
        [field |-> Fields[i], result |-> FieldResult(docs, Fields[i], term, lim)]]


\* ---- search ----
\* Only the first term of the query is kept.
Terms_FirstOnly(q) ==
    LET parts == split(q, Comma)
    IN Take(NonEmpty([i \in DOMAIN parts |-> trim(parts[i])]), 1)

\* query.split(',').map((t) => t.trim()).filter(Boolean)
Terms(q) ==
    LET parts == split(q, Comma)
    IN NonEmpty([i \in DOMAIN parts |-> trim(parts[i])])

fieldPriority(field) ==
    CASE field = "displayName" -> 4
      [] field = "keywords" -> 3
      [] field = "description" -> 2
      [] field = "categoryName" -> 1
      [] OTHER -> 1

\* fieldScores: a Map, kept as the list of its entries in insertion order.
ScoreHas(fs, id) == \E i \in DOMAIN fs : fs[i].id = id
ScoreGet(fs, id) ==
    IF ScoreHas(fs, id) THEN fs[CHOOSE i \in DOMAIN fs : fs[i].id = id].score ELSE 0
ScoreSet(fs, id, sc) ==
    IF ScoreHas(fs, id)
    THEN [fs EXCEPT ![CHOOSE i \in DOMAIN fs : fs[i].id = id].score = sc]
    ELSE Append(fs, [id |-> id, score |-> sc])

RECURSIVE NoteIds(_, _, _)
NoteIds(fs, ids, fieldScore) ==
    IF ids = <<>> THEN fs
    ELSE NoteIds(IF fieldScore > ScoreGet(fs, Head(ids))
                 THEN ScoreSet(fs, Head(ids), fieldScore)
                 ELSE fs,
                 Tail(ids), fieldScore)

RECURSIVE NoteFields(_, _)
NoteFields(fs, results) ==
    IF results = <<>> THEN fs
    ELSE NoteFields(NoteIds(fs, Head(results).result, fieldPriority(Head(results).field)),
                    Tail(results))

\* The scores start afresh at every term: only the last term's hits are kept.
RECURSIVE fieldScores_Reset(_, _, _, _)
fieldScores_Reset(fs, docs, terms, lim) ==
    IF terms = <<>> THEN fs
    ELSE fieldScores_Reset(NoteFields(<<>>, indexSearch(docs, Head(terms), lim)),
                           docs, Tail(terms), lim)

RECURSIVE fieldScores(_, _, _, _)
fieldScores(fs, docs, terms, lim) ==
    IF terms = <<>> THEN fs
    ELSE fieldScores(NoteFields(fs, indexSearch(docs, Head(terms), lim)),
                     docs, Tail(terms), lim)

\* docMap.get(id): the last document of that id.
docMap(docs, id) ==
    docs[CHOOSE i \in DOMAIN docs :
            docs[i].id = id /\ \A j \in (i + 1)..Len(docs) : docs[j].id # id]

Matched(docs, fs) == [i \in DOMAIN fs |-> docMap(docs, fs[i].id)]

\* The whole-term ladder of getNameScore.
TermScore(lower, term) ==
    IF lower = term THEN 100
    ELSE IF startsWith(lower, term) THEN 80
    ELSE IF includes(lower, <<" ">> \o term) \/ includes(lower, term \o <<" ">>) THEN 60
    ELSE IF includes(lower, term) THEN 40
    ELSE 0

\* The per-word ladder of getNameScore.
WordScore(lower, word) ==
    IF lower = word THEN 30
    ELSE IF startsWith(lower, word) THEN 25
    ELSE IF includes(lower, <<" ">> \o word) \/ includes(lower, word \o <<" ">>) THEN 20
    ELSE IF includes(lower, word) THEN 15
    ELSE 0

ScoreForTerm(lower, term) ==
    LET score == TermScore(lower, term)
        words == NonEmpty(split(term, Whitespace))
    IN IF score = 0 /\ Len(words) > 1
       THEN MaxOf({WordScore(lower, words[i]) : i \in DOMAIN words})
       ELSE score

getNameScore(name, lowerTerms) ==
    MaxOf({ScoreForTerm(toLowerCase(name), lowerTerms[i]) : i \in DOMAIN lowerTerms})

\* The comparator with the field tiebreak reversed.
compare_FieldReversed(a, b, lowerTerms, fs) ==
    LET aNameScore == getNameScore(a.displayName, lowerTerms)
        bNameScore == getNameScore(b.displayName, lowerTerms)
        aHasName == IF aNameScore > 0 THEN 1 ELSE 0
        bHasName == IF bNameScore > 0 THEN 1 ELSE 0
        aFieldScore == ScoreGet(fs, a.id)
        bFieldScore == ScoreGet(fs, b.id)
    IN IF aHasName # bHasName THEN bHasName - aHasName
       ELSE IF aNameScore # bNameScore THEN bNameScore - aNameScore
       ELSE IF aFieldScore # bFieldScore THEN aFieldScore - bFieldScore
       ELSE localeCompare(a.displayName, b.displayName)

\* The comparator of matched.sort.
compare(a, b, lowerTerms, fs) ==
    LET aNameScore == getNameScore(a.displayName, lowerTerms)
        bNameScore == getNameScore(b.displayName, lowerTerms)
        aHasName == IF aNameScore > 0 THEN 1 ELSE 0
        bHasName == IF bNameScore > 0 THEN 1 ELSE 0
        aFieldScore == ScoreGet(fs, a.id)
        bFieldScore == ScoreGet(fs, b.id)
    IN IF aHasName # bHasName THEN bHasName - aHasName
       ELSE IF aNameScore # bNameScore THEN bNameScore - aNameScore
       ELSE IF aFieldScore # bFieldScore THEN bFieldScore - aFieldScore
       ELSE localeCompare(a.displayName, b.displayName)

\* Array.prototype.sort is stable: x goes before the first element that the
\* comparator puts strictly after it.
RECURSIVE InsertMatched(_, _, _, _)
InsertMatched(sorted, x, lowerTerms, fs) ==
    IF sorted = <<>> THEN <<x>>
    ELSE IF compare(Head(sorted), x, lowerTerms, fs) <= 0
         THEN <<Head(sorted)>> \o InsertMatched(Tail(sorted), x, lowerTerms, fs)
         ELSE <<x>> \o sorted

RECURSIVE SortMatched(_, _, _)
SortMatched(list, lowerTerms, fs) ==
    IF list = <<>> THEN <<>>
    ELSE InsertMatched(SortMatched(SubSeq(list, 1, Len(list) - 1), lowerTerms, fs),
                       list[Len(list)], lowerTerms, fs)

search(docs, q, lim) ==
    IF trim(q) = <<>> THEN <<>>
    ELSE LET terms == Terms(q)
             fs == fieldScores(<<>>, docs, terms, lim)
             lowerTerms == [i \in DOMAIN terms |-> toLowerCase(terms[i])]
         IN Take(SortMatched(Matched(docs, fs), lowerTerms, fs), lim)


\* ---- the inputs ----
\* Strings of the entries.
StrWindowsFirewall ==
    <<"W", "i", "n", "d", "o", "w", "s", " ", "F", "i", "r", "e", "w", "a", "l", "l">>
StrVpnProfile ==
    <<"V", "P", "N", " ", "P", "r", "o", "f", "i", "l", "e">>
StrFirewall ==
    <<"F", "i", "r", "e", "w", "a", "l", "l">>
StrDefenderFirewall ==
    <<"D", "e", "f", "e", "n", "d", "e", "r", " ", "F", "i", "r", "e", "w", "a", "l", "l">>
StrAlwaysOn ==
    <<"A", "l", "w", "a", "y", "s", " ", "O", "n">>
StrBackup ==
    <<"B", "a", "c", "k", "u", "p">>
StrFirewallRules ==
    <<"F", "i", "r", "e", "w", "a", "l", "l", " ", "R", "u", "l", "e", "s">>
StrConfiguresFirewallRules ==
    <<"c", "o", "n", "f", "i", "g", "u", "r", "e", "s", " ", "f", "i", "r", "e", "w", "a", "l", "l", " ", "r", "u", "l", "e", "s">>
StrVpn ==
    <<"V", "P", "N">>
StrLowerFirewall ==
    <<"f", "i", "r", "e", "w", "a", "l", "l">>
StrNetwork ==
    <<"N", "e", "t", "w", "o", "r", "k">>

Entry(id, displayName, description, keywords, categoryName) ==
    [id |-> id, displayName |-> displayName, description |-> description,
     keywords |-> keywords, categoryName |-> categoryName]

\* The entries an index is drawn from.
EntryPool ==
    { Entry(1, StrWindowsFirewall, <<>>, <<>>, StrNetwork),
      Entry(2, StrVpnProfile, StrConfiguresFirewallRules, <<>>, StrNetwork),
      Entry(3, StrFirewall, <<>>, <<>>, <<>>),
      Entry(4, StrDefenderFirewall, <<>>, <<>>, <<>>),
      Entry(5, StrAlwaysOn, StrVpn, <<>>, StrFirewall),
      Entry(6, StrBackup, <<>>, StrLowerFirewall, <<>>),
      Entry(7, StrFirewallRules, StrVpn, <<>>, <<>>) }

\* Index contents: up to MaxDocs entries of the pool, ids distinct, any order.
DocumentLists ==
    UNION { {d \in [1..n -> EntryPool] : \A i, j \in 1..n : i # j => d[i] # d[j]}
            : n \in 1..MaxDocs }

QFirewall ==
    <<"f", "i", "r", "e", "w", "a", "l", "l">>
QFirewallVpn ==
    <<"f", "i", "r", "e", "w", "a", "l", "l", ",", " ", "v", "p", "n">>
QVpn ==
    <<"v", "p", "n">>
QWindowsFirewall ==
    <<"w", "i", "n", "d", "o", "w", "s", " ", "f", "i", "r", "e", "w", "a", "l", "l">>
QFire ==
    <<"F", "i", "r", "e">>
QBlank ==
    <<" ", ",", " ">>
QWall ==
    <<"w", "a", "l", "l">>
QOnFirewall ==
    <<"o", "n", " ", "f", "i", "r", "e", "w", "a", "l", "l", ",", " ", "f", "i", "r", "e", "w", "a", "l", "l">>
QRulesNetwork ==
    <<"r", "u", "l", "e", "s", " ", "f", "i", "r", "e", "w", "a", "l", "l", ",", "n", "e", "t", "w", "o", "r", "k">>
QWallFirewall ==
    <<"w", "a", "l", "l", ",", "f", "i", "r", "e", "w", "a", "l", "l">>
QEmpty == <<>>

Queries ==
    { QFirewall, QFirewallVpn, QVpn, QWindowsFirewall, QFire, QBlank, QWall,
      QOnFirewall, QRulesNetwork, QWallFirewall, QEmpty }

Limits == (1..MaxLimit) \cup {DefaultLimit}

SearchInit ==
    /\ comp = "search"
    /\ pc = "input"
    /\ documents \in DocumentLists
    /\ query \in Queries
    /\ limit \in Limits
    /\ result = <<>>
    /\ categories = <<>>
    /\ settingsCountMap = <<>>
    /\ tree = NoTree
    /\ settings = <<>>
    /\ grouping = NoGrouping
    /\ DifferIdle
    /\ BarIdle
    /\ LoaderIdle
    /\ BuildIdle

\* await search(query, limit), the index being loaded.
Search ==
    /\ comp = "search"
    /\ pc = "input"
    /\ result' = search(documents, query, limit)
    /\ pc' = "done"
    /\ UNCHANGED <<comp, documents, query, limit, treeVars, groupVars,
                   differVars, barVars, loaderVars, buildVars>>

SearchNext == Search

SearchSpec == SearchInit /\ [][SearchNext]_vars

(***************************************************************************)
(* Search: vocabulary of the claims.                                       *)
(***************************************************************************)
SearchDone == comp = "search" /\ pc = "done"
LowerTerms == [i \in DOMAIN Terms(query) |-> toLowerCase(Terms(query)[i])]
\* Name affinity of an entry for the query.
Affinity(d) == getNameScore(d.displayName, LowerTerms)
\* The best priority among the fields in which the index reported the entry.
BestField(d) ==
    MaxOf({fieldPriority(Fields[f]) :
             f \in {g \in DOMAIN Fields :
                      \E t \in DOMAIN Terms(query) :
                          d.id \in Range(FieldResult(documents, Fields[g],
                                                     Terms(query)[t], limit))}})

(***************************************************************************)
(* C9.  For every index, query and limit the list search returns is        *)
(* ordered by (affinity > 0, affinity, best matched field priority,        *)
(* display name): no zero-affinity result precedes a positive-affinity     *)
(* one, a higher affinity comes first, equal affinities are ordered by     *)
(* field priority displayName > keywords > description > categoryName,     *)
(* and remaining ties are alphabetical by display name.                    *)
(***************************************************************************)
C9_Ranked ==
    SearchDone =>
        \A i, j \in DOMAIN result :
            i < j =>
                LET a == result[i]
                    b == result[j]
                IN /\ ~(Affinity(a) = 0 /\ Affinity(b) > 0)
                   /\ Affinity(a) >= Affinity(b)
                   /\ Affinity(a) = Affinity(b) => BestField(a) >= BestField(b)
                   /\ (Affinity(a) = Affinity(b) /\ BestField(a) = BestField(b))
                         => localeCompare(a.displayName, b.displayName) <= 0

\* One result list in which each level of the key decides a pair: the bucket,
\* the field priority against the alphabet, and the alphabet.
C9_Witness ==
    /\ SearchDone
    /\ \E i, j \in DOMAIN result :
          i < j /\ Affinity(result[i]) > 0 /\ Affinity(result[j]) = 0
    /\ \E i, j \in DOMAIN result :
          /\ i < j
          /\ Affinity(result[i]) = Affinity(result[j])
          /\ BestField(result[i]) > BestField(result[j])
          /\ localeCompare(result[i].displayName, result[j].displayName) > 0
    /\ \E i, j \in DOMAIN result :
          /\ i < j
          /\ Affinity(result[i]) = Affinity(result[j])
          /\ BestField(result[i]) = BestField(result[j])
          /\ localeCompare(result[i].displayName, result[j].displayName) < 0

(***************************************************************************)
(* C10.  For the query "firewall, vpn" over an index holding one entry     *)
(* named "Windows Firewall" and one entry named "VPN Profile" with the     *)
(* description "configures firewall rules", search returns both entries    *)
(* and "Windows Firewall" is ranked first.                                 *)
(***************************************************************************)
FirewallVpnCase ==
    /\ SearchDone
    /\ query = QFirewallVpn
    /\ limit = DefaultLimit
    /\ Len(documents) = 2
    /\ \E i \in 1..2 : documents[i].displayName = StrWindowsFirewall
    /\ \E i \in 1..2 : /\ documents[i].displayName = StrVpnProfile
                       /\ documents[i].description = StrConfiguresFirewallRules

C10_WindowsFirewallFirst ==
    FirewallVpnCase =>
        /\ Range(result) = Range(documents)
        /\ result[1].displayName = StrWindowsFirewall

(* C10 as amended: for that query over that index search returns both      *)
(* entries and "VPN Profile" is ranked first, "Windows Firewall" second:   *)
(* the name "VPN Profile" starts with the term "vpn" (affinity 80), while  *)
(* "Windows Firewall" only holds the term "firewall" as a word (60).       *)
C10_VpnProfileFirst ==
    FirewallVpnCase =>
        /\ Len(result) = 2
        /\ result[1].displayName = StrVpnProfile
        /\ result[2].displayName = StrWindowsFirewall
        /\ Affinity(result[1]) = 80
        /\ Affinity(result[2]) = 60

C10_Witness ==
    /\ FirewallVpnCase
    /\ Len(result) = 2
    /\ documents[1].displayName = StrWindowsFirewall


(***************************************************************************)
(* C11.  search(query, limit) truncates only after ranking: its result is  *)
(* the first `limit` elements of the ranked list of all documents that     *)
(* match at least one term; no matching document that ranks within the     *)
(* top `limit` is missing because candidates were cut earlier by the       *)
(* limit handed to the per-term index queries.                             *)
(***************************************************************************)
\* A document matches when some field matches some term of the query.
MatchesQuery(d) ==
    \E t \in DOMAIN Terms(query) :
        \E f \in DOMAIN Fields : FieldMatches(d[Fields[f]], Terms(query)[t])
AllMatching == {documents[i] : i \in {j \in DOMAIN documents : MatchesQuery(documents[j])}}
\* The ranked list of all matching documents: the search with no candidate
\* cut anywhere (a limit as large as the index).
FullRanking == search(documents, query, Len(documents))

C11_TruncatesAfterRanking ==
    SearchDone =>
        /\ Range(FullRanking) = AllMatching
        /\ result = Take(FullRanking, limit)


(***************************************************************************)
(* C12.  search splits the query at commas into trimmed non-empty terms    *)
(* and uses OR semantics: when limit is at least the number of indexed     *)
(* documents, the set of ids returned for "t1, t2" is the union of the     *)
(* sets returned for "t1" and for "t2"; a query with no non-empty term     *)
(* (empty, whitespace or only commas) returns the empty list.              *)
(***************************************************************************)
\* The maximal comma-free pieces of the query, trimmed, the empty ones left out.
TermSet(q) ==
    {trim(SubSeq(q, i, j)) :
        <<i, j>> \in {p \in (1..Len(q)) \X (1..Len(q)) :
                        /\ p[1] <= p[2]
                        /\ \A k \in p[1]..p[2] : q[k] \notin Comma
                        /\ (p[1] = 1 \/ q[p[1] - 1] \in Comma)
                        /\ (p[2] = Len(q) \/ q[p[2] + 1] \in Comma)}} \ {<<>>}
IdsOf(list) == {list[i].id : i \in DOMAIN list}

C12_CommaIsOr ==
    SearchDone =>
        /\ limit >= Len(documents) =>
              IdsOf(result) = UNION {IdsOf(search(documents, t, limit)) : t \in TermSet(query)}
        /\ TermSet(query) = {} => result = <<>>

\* A two-term query in which each term brings an entry the other does not.
C12_Witness ==
    /\ SearchDone
    /\ limit >= Len(documents)
    /\ Cardinality(TermSet(query)) = 2
    /\ \A t \in TermSet(query) :
          \E id \in IdsOf(result) :
              /\ id \in IdsOf(search(documents, t, limit))
              /\ \A u \in TermSet(query) \ {t} : id \notin IdsOf(search(documents, u, limit))


(***************************************************************************)
(*                 C H A N G E L O G   G E N E R A T O R                   *)
(***************************************************************************)

\* ---- bounds of the generator's inputs ----
MaxRuns == 2        \* runs of the generator in one behaviour
MaxDay == 2         \* calendar dates a run can fall on

\* A field the JSON object does not have (undefined).
Missing == "undefined"

\* A data file: fs.existsSync and the parsed content.
File(data) == [exists |-> TRUE, data |-> data]
AbsentFile == [exists |-> FALSE, data |-> <<>>]

\* JSON.stringify(v ?? ''): a missing value is serialised like the empty string.
OrEmpty(v) == IF v = Missing THEN "" ELSE v

\* ---- hashes: md5 of JSON.stringify(relevant), kept as the serialised fields ----
hashSetting(s) ==
    << s.displayName, s.description, s.helpText, s.categoryId, s.baseUri,
       s.offsetUri, s.options, s.valueDefinition, s.applicability >>

hashCategory(c) ==
    << c.displayName, c.description, c.platforms, c.technologies,
       c.parentCategoryId, c.settingUsage >>

\* ---- field-level diffs ----
FieldDiff(field, old, new) == [field |-> field, oldValue |-> old, newValue |-> new]

\* The loop over `fields`: one diff per listed field whose serialisation differs.
RECURSIVE DiffListed(_, _, _)
DiffListed(fields, old, new) ==
    IF fields = <<>> THEN <<>>
    ELSE LET f == Head(fields)
             d == IF OrEmpty(old[f]) # OrEmpty(new[f])
                  THEN <<FieldDiff(f, <<"json", OrEmpty(old[f])>>, <<"json", OrEmpty(new[f])>>)>>
                  ELSE <<>>
         IN d \o DiffListed(Tail(fields), old, new)

CategoryDiffFields ==
    << "displayName", "description", "platforms", "technologies",
       "parentCategoryId", "settingUsage" >>
diffCategoryFields(oldC, newC) == DiffListed(CategoryDiffFields, oldC, newC)

SettingDiffFields ==
    <<"displayName", "description", "helpText", "categoryId", "baseUri", "offsetUri">>
diffFields(oldS, newS) ==
    DiffListed(SettingDiffFields, oldS, newS)
    \o (IF oldS.options # newS.options
        THEN <<FieldDiff("options", <<"options", Len(oldS.options)>>,
                                    <<"options", Len(newS.options)>>)>>
        ELSE <<>>)
    \o (IF oldS.applicability # newS.applicability
        THEN <<FieldDiff("applicability", <<"json", OrEmpty(oldS.applicability)>>,
                                          <<"json", OrEmpty(newS.applicability)>>)>>
        ELSE <<>>)

\* ---- lookup maps: Map.set in array order, the last record of an id wins ----
HasIdIn(list, id) == \E i \in DOMAIN list : list[i].id = id
LastOf(list, id) ==
    list[CHOOSE i \in DOMAIN list :
            list[i].id = id /\ \A j \in (i + 1)..Len(list) : list[j].id # id]

\* categoryMap.get(s.categoryId)
categoryName(cats, s) ==
    IF HasIdIn(cats, s.categoryId) THEN LastOf(cats, s.categoryId).displayName ELSE Missing

\* s.applicability?.platform ?? undefined: the platform is part of applicability.
platformOf(s) == s.applicability

SettingRef(cats, s) ==
    [id |-> s.id, displayName |-> s.displayName, categoryId |-> s.categoryId,
     categoryName |-> categoryName(cats, s), platform |-> platformOf(s)]
CategoryRef(c) ==
    [id |-> c.id, displayName |-> c.displayName, parentCategoryId |-> c.parentCategoryId]

\* ---- the buckets ----
RECURSIVE added(_, _, _)
added(current, previous, cats) ==
    IF current = <<>> THEN <<>>
    ELSE (IF ~HasIdIn(previous, Head(current).id)
          THEN <<SettingRef(cats, Head(current))>> ELSE <<>>)
         \o added(Tail(current), previous, cats)

\* removed is the same loop over `previous` against `current`.
removed(current, previous, cats) == added(previous, current, cats)

\* The hash of the record at hand is compared, not the hash stored for its id.
RECURSIVE changed_OwnHash(_, _, _, _)
changed_OwnHash(rest, current, previous, cats) ==
    IF rest = <<>> THEN <<>>
    ELSE LET s == Head(rest)
             fields == diffFields(LastOf(previous, s.id), s)
         IN (IF /\ HasIdIn(previous, s.id)
                /\ hashSetting(LastOf(previous, s.id)) # hashSetting(s)
                /\ Len(fields) > 0
             THEN <<SettingRef(cats, s) @@ [fields |-> fields]>>
             ELSE <<>>)
            \o changed_OwnHash(Tail(rest), current, previous, cats)

RECURSIVE changed(_, _, _, _)
changed(rest, current, previous, cats) ==
    IF rest = <<>> THEN <<>>
    ELSE LET s == Head(rest)
             fields == diffFields(LastOf(previous, s.id), s)
         IN (IF /\ HasIdIn(previous, s.id)
                /\ hashSetting(LastOf(previous, s.id)) # hashSetting(LastOf(current, s.id))
                /\ Len(fields) > 0
             THEN <<SettingRef(cats, s) @@ [fields |-> fields]>>
             ELSE <<>>)
            \o changed(Tail(rest), current, previous, cats)

RECURSIVE categoriesAdded(_, _)
categoriesAdded(cats, previousCategories) ==
    IF cats = <<>> THEN <<>>
    ELSE (IF ~HasIdIn(previousCategories, Head(cats).id)
          THEN <<CategoryRef(Head(cats))>> ELSE <<>>)
         \o categoriesAdded(Tail(cats), previousCategories)

categoriesRemoved(cats, previousCategories) == categoriesAdded(previousCategories, cats)

RECURSIVE categoriesChanged(_, _, _)
categoriesChanged(rest, cats, previousCategories) ==
    IF rest = <<>> THEN <<>>
    ELSE LET c == Head(rest)
             fields == diffCategoryFields(LastOf(previousCategories, c.id), c)
         IN (IF /\ HasIdIn(previousCategories, c.id)
                /\ hashCategory(LastOf(previousCategories, c.id)) # hashCategory(LastOf(cats, c.id))
                /\ Len(fields) > 0
             THEN <<[id |-> c.id, displayName |-> c.displayName, fields |-> fields]>>
             ELSE <<>>)
            \o categoriesChanged(Tail(rest), cats, previousCategories)


\* ---- main ----
NoBuckets ==
    [added |-> <<>>, removed |-> <<>>, changed |-> <<>>,
     categoriesAdded |-> <<>>, categoriesRemoved |-> <<>>, categoriesChanged |-> <<>>]

\* The six buckets of a run that has a previous settings snapshot.
Buckets(f) ==
    LET current == f.settings.data
        previous == f.previous.data
        cats == f.categories.data
        hasCategoryBaseline == f.categoriesPrevious.exists
        previousCategories == f.categoriesPrevious.data
    IN [added |-> added(current, previous, cats),
        removed |-> removed(current, previous, cats),
        changed |-> changed(current, current, previous, cats),
        categoriesAdded |->
            IF hasCategoryBaseline THEN categoriesAdded(cats, previousCategories) ELSE <<>>,
        categoriesRemoved |->
            IF hasCategoryBaseline THEN categoriesRemoved(cats, previousCategories) ELSE <<>>,
        categoriesChanged |->
            IF hasCategoryBaseline THEN categoriesChanged(cats, cats, previousCategories)
                                   ELSE <<>>]

AllEmpty(b) ==
    /\ Len(b.added) = 0 /\ Len(b.removed) = 0 /\ Len(b.changed) = 0
    /\ Len(b.categoriesAdded) = 0 /\ Len(b.categoriesRemoved) = 0
    /\ Len(b.categoriesChanged) = 0

\* The entry of a run.  A category bucket that is empty is left out of the
\* written object; here it is the empty list.
ChangelogEntry(date, b) == [date |-> date] @@ b

\* The new entry is put in front without removing the date's old entry.
WriteChangelog_Append(log, entry) ==
    File(<<entry>> \o log.data)

\* The new entry is put at the end of the history.
WriteChangelog_Push(log, entry) ==
    File(SelectSeq(log.data, LAMBDA e : e.date # entry.date) \o <<entry>>)

\* changelog.filter((e) => e.date !== entry.date), unshift(entry), write.
WriteChangelog(log, entry) ==
    File(<<entry>> \o SelectSeq(log.data, LAMBDA e : e.date # entry.date))

\* fs.copyFileSync(SETTINGS_FILE, PREVIOUS_FILE) and, if categories.json exists,
\* fs.copyFileSync(CATEGORIES_FILE, CATEGORIES_PREVIOUS_FILE).
CopySnapshots(f) ==
    [f EXCEPT !.previous = f.settings,
              !.categoriesPrevious = IF f.categories.exists THEN f.categories ELSE @]

\* main(): the files after a run on `date`.
main(f, date) ==
    IF ~f.settings.exists THEN f                      \* process.exit(1)
    ELSE IF ~f.previous.exists
    THEN [CopySnapshots(f) EXCEPT !.changelog = IF @.exists THEN @ ELSE File(<<>>)]
    ELSE LET b == Buckets(f)
         IN IF AllEmpty(b) THEN CopySnapshots(f)
            ELSE CopySnapshots([f EXCEPT !.changelog = WriteChangelog(@, ChangelogEntry(date, b))])


\* ---- the inputs ----
\* A setting definition as fetch-settings stores it (the fields that matter here).
BaseSetting(id) ==
    [id |-> id, name |-> "a", displayName |-> "a", description |-> "a",
     helpText |-> "", version |-> "a", categoryId |-> "c1",
     rootDefinitionId |-> "a", baseUri |-> "a", offsetUri |-> "a",
     options |-> <<>>, valueDefinition |-> "a", applicability |-> "a",
     keywords |-> <<>>]
SettingFieldNames == DOMAIN BaseSetting("s1") \ {"id"}
\* Another value of a field.
OtherValue(field) ==
    CASE field \in {"options", "keywords"} -> <<"x">>
      [] field \in {"categoryId", "parentCategoryId"} -> "c2"
      [] OTHER -> "b"
\* The base setting and every setting that differs from it in one field.
SettingVariants(id) ==
    {BaseSetting(id)}
    \cup {[BaseSetting(id) EXCEPT ![f] = OtherValue(f)] : f \in SettingFieldNames}
    \cup {[BaseSetting(id) EXCEPT !.helpText = Missing]}

BaseCategory(id) ==
    [id |-> id, name |-> "a", displayName |-> "a", description |-> "a",
     platforms |-> "a", technologies |-> "a", parentCategoryId |-> "c1",
     settingUsage |-> "a", childCategoryIds |-> "a"]
CategoryFieldNames == DOMAIN BaseCategory("c1") \ {"id"}
CategoryVariants(id) ==
    {BaseCategory(id)}
    \cup {[BaseCategory(id) EXCEPT ![f] = OtherValue(f)] : f \in CategoryFieldNames}

\* Snapshots of up to two records: any record of `first`, then one of `second`.
Snapshots(first, second) ==
    {<<>>} \cup {<<x>> : x \in first} \cup {<<x, y>> : x \in first, y \in second}

PlainSettings ==
    {BaseSetting("s1"), [BaseSetting("s1") EXCEPT !.description = "b"], BaseSetting("s2")}
PlainCategories ==
    {BaseCategory("c1"), [BaseCategory("c1") EXCEPT !.description = "b"], BaseCategory("c2")}

\* The current snapshot, rich in one-field variants (duplicate ids included).
CurrentSettings == Snapshots(SettingVariants("s1") \cup {BaseSetting("s2")}, PlainSettings)
CurrentCategories ==
    Snapshots(CategoryVariants("c1") \cup {BaseCategory("c2")}, PlainCategories)
\* The stored previous snapshot, if there is one.
PreviousSettings == {AbsentFile} \cup {File(x) : x \in Snapshots(PlainSettings, PlainSettings)}
PreviousCategories ==
    {AbsentFile} \cup {File(x) : x \in Snapshots(PlainCategories, PlainCategories)}

\* An entry of an earlier day.
OldEntry(date) ==
    ChangelogEntry(date, [NoBuckets EXCEPT !.added = <<SettingRef(<<>>, BaseSetting("s0"))>>])
Changelogs ==
    {AbsentFile, File(<<>>), File(<<OldEntry(1)>>), File(<<OldEntry(2), OldEntry(1)>>)}

\* What a fetch can leave in settings.json and categories.json between two runs.
Fetched ==
    { [settings |-> File(<<BaseSetting("s1")>>), categories |-> File(<<BaseCategory("c1")>>)],
      [settings |-> File(<<[BaseSetting("s1") EXCEPT !.description = "b"], BaseSetting("s2")>>),
       categories |-> File(<<BaseCategory("c1")>>)],
      [settings |-> File(<<BaseSetting("s1")>>), categories |-> AbsentFile],
      [settings |-> File(<<>>),
       categories |-> File(<<[BaseCategory("c1") EXCEPT !.displayName = "b"]>>)] }

NoRun ==
    [n |-> 0, date |-> 0, completed |-> FALSE, buckets |-> NoBuckets, before |-> <<>>,
     dates |-> <<>>, startEmpty |-> TRUE]

DifferInit ==
    /\ comp = "differ"
    /\ pc = "input"
    /\ \E log \in Changelogs :
          \/ \E cur \in CurrentSettings, prev \in PreviousSettings :
                files = [settings |-> File(cur), previous |-> prev,
                         categories |-> File(<<BaseCategory("c1")>>),
                         categoriesPrevious |-> File(<<BaseCategory("c1")>>),
                         changelog |-> log]
          \/ \E cur \in {AbsentFile} \cup {File(x) : x \in CurrentCategories},
                prevCat \in PreviousCategories,
                prev \in {AbsentFile, File(<<BaseSetting("s1")>>)} :
                files = [settings |-> File(<<BaseSetting("s1")>>), previous |-> prev,
                         categories |-> cur, categoriesPrevious |-> prevCat,
                         changelog |-> log]
          \/ files = [settings |-> AbsentFile, previous |-> File(<<BaseSetting("s1")>>),
                      categories |-> File(<<BaseCategory("c1")>>),
                      categoriesPrevious |-> AbsentFile, changelog |-> log]
    /\ lastRun = [NoRun EXCEPT !.startEmpty = (files.changelog.data = <<>>)]
    /\ categories = <<>>
    /\ settingsCountMap = <<>>
    /\ tree = NoTree
    /\ settings = <<>>
    /\ grouping = NoGrouping
    /\ SearchIdle
    /\ BarIdle
    /\ LoaderIdle
    /\ BuildIdle

\* One run of generate-changelog on some calendar date.
GenerateChangelog ==
    /\ comp = "differ"
    /\ pc = "input"
    /\ lastRun.n < MaxRuns
    /\ \E date \in 1..MaxDay :
          /\ files' = main(files, date)
          /\ lastRun' = [n |-> lastRun.n + 1, date |-> date,
                         completed |-> files.settings.exists,
                         buckets |-> IF files.settings.exists /\ files.previous.exists
                                     THEN Buckets(files) ELSE NoBuckets,
                         before |-> files,
                         dates |-> Append(lastRun.dates, date),
                         startEmpty |-> lastRun.startEmpty]
    /\ pc' = "done"
    /\ UNCHANGED <<comp, treeVars, groupVars, searchVars, barVars, loaderVars, buildVars>>

\* fetch-settings rewrites settings.json and categories.json before the next run.
FetchSettings ==
    /\ comp = "differ"
    /\ pc = "done"
    /\ lastRun.n < MaxRuns
    /\ \E fetched \in Fetched :
          files' = [files EXCEPT !.settings = fetched.settings,
                                 !.categories = fetched.categories]
    /\ pc' = "input"
    /\ UNCHANGED <<comp, lastRun, treeVars, groupVars, searchVars, barVars, loaderVars, buildVars>>

DifferNext == GenerateChangelog \/ FetchSettings

DifferSpec == DifferInit /\ [][DifferNext]_vars


(***************************************************************************)
(* Changelog generator: vocabulary of the claims.                          *)
(***************************************************************************)
\* A run has just completed (it did not exit for want of settings.json).
RunDone == comp = "differ" /\ pc = "done" /\ lastRun.completed
\* The files the run started from.
Before == lastRun.before
\* The run had a previous settings snapshot to diff against.
DiffRun == RunDone /\ Before.previous.exists
FirstRun == RunDone /\ ~Before.previous.exists
\* Two snapshot files hold the same snapshot (a missing file reads as empty).
SameSnapshot(a, b) == a.data = b.data
DupIds(list) == \E i, j \in DOMAIN list : i # j /\ list[i].id = list[j].id

(***************************************************************************)
(* C13.  A run whose current settings and categories snapshots equal the   *)
(* stored previous snapshots (also when a snapshot holds duplicate ids)    *)
(* computes six empty buckets and leaves the changelog unchanged.          *)
(***************************************************************************)
C13_DiffOfEqualIsEmpty ==
    (/\ DiffRun
     /\ SameSnapshot(Before.settings, Before.previous)
     /\ SameSnapshot(Before.categories, Before.categoriesPrevious))
        => /\ lastRun.buckets = NoBuckets
           /\ files.changelog = Before.changelog

\* Equal snapshots in which one id occurs twice with different content, and a
\* changelog that already holds entries.
C13_Witness ==
    /\ DiffRun
    /\ SameSnapshot(Before.settings, Before.previous)
    /\ SameSnapshot(Before.categories, Before.categoriesPrevious)
    /\ Before.categoriesPrevious.exists
    /\ \E i, j \in DOMAIN Before.settings.data :
          /\ i # j
          /\ Before.settings.data[i].id = Before.settings.data[j].id
          /\ hashSetting(Before.settings.data[i]) # hashSetting(Before.settings.data[j])
    /\ Len(files.changelog.data) > 0

(***************************************************************************)
(* C14.  When no previous settings snapshot exists, a run adds no          *)
(* changelog entry however many current settings there are (an existing    *)
(* changelog is left unchanged, a missing one is created empty), and       *)
(* after the run the stored previous settings and categories snapshots     *)
(* equal the current ones.                                                 *)
(***************************************************************************)
C14_FirstRunBaseline ==
    FirstRun =>
        /\ Before.changelog.exists => files.changelog = Before.changelog
        /\ ~Before.changelog.exists => files.changelog = File(<<>>)
        /\ files.previous.exists /\ SameSnapshot(files.previous, files.settings)
        /\ SameSnapshot(files.categoriesPrevious, files.categories)

(***************************************************************************)
(* C15.  Over any sequence of runs, from a changelog with at most one      *)
(* entry per date, the changelog never holds two entries of one date: a    *)
(* run that produces an entry on a date already present replaces that      *)
(* date's entry by its own and leaves the entries of all other dates       *)
(* unchanged.                                                              *)
(***************************************************************************)
ProducedEntry == DiffRun /\ ~AllEmpty(lastRun.buckets)
EntriesOf(f) == Range(f.changelog.data)

C15_OneEntryPerDate ==
    comp = "differ" =>
        /\ \A i, j \in DOMAIN files.changelog.data :
              files.changelog.data[i].date = files.changelog.data[j].date => i = j
        /\ ProducedEntry =>
              /\ {e \in EntriesOf(files) : e.date = lastRun.date}
                    = {ChangelogEntry(lastRun.date, lastRun.buckets)}
              /\ {e \in EntriesOf(files) : e.date # lastRun.date}
                    = {e \in EntriesOf(Before) : e.date # lastRun.date}

\* A second run on a date whose entry it replaces by a different one, next to
\* an entry of another date.
C15_Witness ==
    /\ ProducedEntry
    /\ lastRun.n = MaxRuns
    /\ \E e \in EntriesOf(Before) :
          e.date = lastRun.date /\ e # ChangelogEntry(lastRun.date, lastRun.buckets)
    /\ \E e \in EntriesOf(files) : e.date # lastRun.date


(***************************************************************************)
(* C16.  In a run with a previous snapshot the changed bucket is exactly   *)
(* the set of ids present in both snapshots whose hash differs: every      *)
(* setting (and every category) whose hash differs gets a changed entry    *)
(* and no id with equal hashes does, also when the only difference is in   *)
(* a hashed field without a field-level diff (valueDefinition).            *)
(***************************************************************************)
ListIds(list) == {list[i].id : i \in DOMAIN list}
InBoth(cur, prev) == ListIds(cur) \cap ListIds(prev)
HashDifferSettings ==
    {id \in InBoth(Before.settings.data, Before.previous.data) :
        hashSetting(LastOf(Before.settings.data, id))
            # hashSetting(LastOf(Before.previous.data, id))}
HashDifferCategories ==
    {id \in InBoth(Before.categories.data, Before.categoriesPrevious.data) :
        hashCategory(LastOf(Before.categories.data, id))
            # hashCategory(LastOf(Before.categoriesPrevious.data, id))}

C16_ChangedIsHashDiff ==
    DiffRun =>
        /\ ListIds(lastRun.buckets.changed) = HashDifferSettings
        /\ Before.categoriesPrevious.exists
              => ListIds(lastRun.buckets.categoriesChanged) = HashDifferCategories

(***************************************************************************)
(* C17.  The hash covers the whole stated allow-list: a setting present    *)
(* in both snapshots that differs in any one of display name,              *)
(* description, help text, baseUri, offsetUri, version, options,           *)
(* applicability or keywords, and a category that differs in any one of    *)
(* display name, description, platforms, technologies or parent id, is     *)
(* reported in the corresponding changed bucket.                           *)
(***************************************************************************)
SettingAllowList ==
    {"displayName", "description", "helpText", "baseUri", "offsetUri", "version",
     "options", "applicability", "keywords"}
CategoryAllowList ==
    {"displayName", "description", "platforms", "technologies", "parentCategoryId"}
DiffersIn(fields, a, b) == \E f \in fields : a[f] # b[f]

C17_AllowListDetected ==
    (DiffRun /\ ~DupIds(Before.settings.data) /\ ~DupIds(Before.previous.data)
             /\ ~DupIds(Before.categories.data) /\ ~DupIds(Before.categoriesPrevious.data))
        => /\ \A id \in InBoth(Before.settings.data, Before.previous.data) :
                 DiffersIn(SettingAllowList, LastOf(Before.settings.data, id),
                           LastOf(Before.previous.data, id))
                    => id \in ListIds(lastRun.buckets.changed)
           /\ Before.categoriesPrevious.exists =>
                 \A id \in InBoth(Before.categories.data, Before.categoriesPrevious.data) :
                    DiffersIn(CategoryAllowList, LastOf(Before.categories.data, id),
                              LastOf(Before.categoriesPrevious.data, id))
                       => id \in ListIds(lastRun.buckets.categoriesChanged)

(***************************************************************************)
(* C18.  Fields outside the stated allow-list never influence the run:     *)
(* two current snapshots that agree on every id and on every allow-listed  *)
(* field and differ only in other fields (categoryId, valueDefinition,     *)
(* name, rootDefinitionId of a setting; settingUsage, childCategoryIds of  *)
(* a category) produce identical buckets against the same previous         *)
(* snapshot.                                                               *)
(***************************************************************************)
AgreeOn(fields, a, b) ==
    /\ Len(a) = Len(b)
    /\ \A i \in DOMAIN a : a[i].id = b[i].id /\ ~DiffersIn(fields, a[i], b[i])

C18_OnlyAllowListMatters ==
    DiffRun =>
        /\ \A alt \in CurrentSettings :
              AgreeOn(SettingAllowList, alt, Before.settings.data)
                 => Buckets([Before EXCEPT !.settings = File(alt)]) = lastRun.buckets
        /\ Before.categories.exists =>
              \A alt \in CurrentCategories :
                 AgreeOn(CategoryAllowList, alt, Before.categories.data)
                    => Buckets([Before EXCEPT !.categories = File(alt)]) = lastRun.buckets

(***************************************************************************)
(* C19.  After every run that completes (first run or not, changes or      *)
(* not) the stored previous settings snapshot equals the current settings  *)
(* snapshot and the stored previous categories snapshot equals the         *)
(* current categories snapshot, so that each run diffs against exactly     *)
(* the snapshot of the run before it.                                      *)
(***************************************************************************)
C19_BaselineIsCurrent ==
    RunDone =>
        /\ files.previous.exists /\ SameSnapshot(files.previous, files.settings)
        /\ SameSnapshot(files.categoriesPrevious, files.categories)


(***************************************************************************)
(*                          S E A R C H   B A R                            *)
(***************************************************************************)

\* ---- bound ----
MaxInFlight == 2    \* searches that wait for the index at one time

\* Values of the input field.
BarQueries == {<<>>, <<" ">>, <<"a">>, <<"a", "b">>}

NoTimer == [set |-> FALSE, value |-> <<>>]
Timer(value) == [set |-> TRUE, value |-> value]

\* onSearchResults(list): the list computed for `forQuery`, handed over while
\* the input holds `input`.
Delivery(forQuery, input) == [forQuery |-> forQuery, input |-> input]

\* flexSearch(value, 200) and, once it resolves, onSearchResults(res).  With the
\* index loaded the search resolves before any other event is handled; else it
\* waits for ensureIndex.
StartSearch(b, value) ==
    IF b.indexReady
    THEN [b EXCEPT !.delivered = <<Delivery(value, b.query)>>]
    ELSE [b EXCEPT !.inflight = Append(@, value)]

\* handleChange
handleChange(b, value) ==
    LET b1 == [b EXCEPT !.query = value, !.debounce = NoTimer]   \* setQuery, clearTimeout
    IN IF trim(value) = <<>>
       THEN [b1 EXCEPT !.delivered = <<Delivery(value, value)>>]   \* onSearchResults([])
       ELSE [b1 EXCEPT !.debounce = Timer(value)]                  \* setTimeout(..., 200)

\* The clear button's onClick: setQuery(''), onSearchResults([]).
clearClick(b) == [b EXCEPT !.query = <<>>, !.delivered = <<Delivery(<<>>, <<>>)>>]

\* The debounce callback.
debounceFires(b) == StartSearch([b EXCEPT !.debounce = NoTimer], b.debounce.value)

\* handleSearch (Enter): searches the query of the input.
handleSearch(b) == StartSearch(b, b.query)

\* The index finished loading: the waiting searches resolve in the order they
\* were started, each handing over its result.
indexLoaded(b) ==
    [b EXCEPT !.indexReady = TRUE,
              !.inflight = <<>>,
              !.delivered = IF b.inflight = <<>> THEN @
                            ELSE [i \in DOMAIN b.inflight |-> Delivery(b.inflight[i], b.query)]]

\* The index failed to load: every waiting search rejects, nothing is handed over.
indexFailed(b) == [b EXCEPT !.inflight = <<>>]

BarInit ==
    /\ comp = "bar"
    /\ pc = "input"
    /\ \E ready \in BOOLEAN :
          bar = [query |-> <<>>, debounce |-> NoTimer, inflight |-> <<>>,
                 indexReady |-> ready, delivered |-> <<>>]
    /\ categories = <<>>
    /\ settingsCountMap = <<>>
    /\ tree = NoTree
    /\ settings = <<>>
    /\ grouping = NoGrouping
    /\ SearchIdle
    /\ DifferIdle
    /\ LoaderIdle
    /\ BuildIdle

BarUnchanged ==
    UNCHANGED <<comp, pc, treeVars, groupVars, searchVars, differVars, loaderVars, buildVars>>

Keystroke ==
    /\ comp = "bar"
    /\ \E value \in BarQueries \ {bar.query} : bar' = handleChange(bar, value)
    /\ BarUnchanged

ClearClick ==
    /\ comp = "bar"
    /\ bar.query # <<>>                    \* the button is rendered only then
    /\ bar' = clearClick(bar)
    /\ BarUnchanged

PressEnter ==
    /\ comp = "bar"
    /\ trim(bar.query) # <<>>              \* if (!query.trim()) return
    /\ Len(bar.inflight) < MaxInFlight
    /\ bar' = handleSearch(bar)
    /\ BarUnchanged

DebounceFires ==
    /\ comp = "bar"
    /\ bar.debounce.set
    /\ Len(bar.inflight) < MaxInFlight
    /\ bar' = debounceFires(bar)
    /\ BarUnchanged

IndexLoaded ==
    /\ comp = "bar"
    /\ ~bar.indexReady
    /\ bar' = indexLoaded(bar)
    /\ BarUnchanged

IndexFailed ==
    /\ comp = "bar"
    /\ ~bar.indexReady
    /\ bar.inflight # <<>>
    /\ bar' = indexFailed(bar)
    /\ BarUnchanged

BarNext ==
    \/ Keystroke
    \/ ClearClick
    \/ PressEnter
    \/ DebounceFires
    \/ IndexLoaded
    \/ IndexFailed

SearchBarSpec == BarInit /\ [][BarNext]_vars

(***************************************************************************)
(* C20.  In SearchBar, for every interleaving of keystrokes, clear-button  *)
(* clicks, Enter presses, debounce-timer firings and search completions,   *)
(* a result list delivered to onSearchResults belongs to the query that    *)
(* is in the input at that moment: the result of a superseded query is     *)
(* discarded and never overwrites the result of the latest query.          *)
(***************************************************************************)
C20_NoStaleResult ==
    comp = "bar" =>
        \A i \in DOMAIN bar.delivered :
            bar.delivered[i].forQuery = bar.delivered[i].input


(***************************************************************************)
(* C22.  The changelog history is newest first: for any sequence of runs   *)
(* whose run dates are non-decreasing, starting from an empty changelog,   *)
(* the entries of the changelog are always in strictly descending date     *)
(* order.                                                                  *)
(***************************************************************************)
NonDecreasing(dates) == \A i, j \in DOMAIN dates : i < j => dates[i] <= dates[j]

C22_NewestFirst ==
    (comp = "differ" /\ lastRun.startEmpty /\ NonDecreasing(lastRun.dates))
        => \A i, j \in DOMAIN files.changelog.data :
              i < j => files.changelog.data[i].date > files.changelog.data[j].date

\* Two runs on two days, each of which wrote an entry.
C22_Witness ==
    /\ comp = "differ"
    /\ lastRun.startEmpty
    /\ Len(lastRun.dates) = MaxRuns
    /\ lastRun.dates[1] < lastRun.dates[2]
    /\ Len(files.changelog.data) = 2
    /\ files.changelog.data[1].date = lastRun.dates[2]
    /\ files.changelog.data[2].date = lastRun.dates[1]


(***************************************************************************)
(* C23.  Name affinity of a display name for a term is tiered: exact match *)
(* > prefix match > standalone-word match > substring match > no match.    *)
(* The per-word fallback is used only when the whole term scores zero and  *)
(* the term has several words; every whole-term match scores strictly      *)
(* higher than every per-word fallback match, every per-word fallback      *)
(* match scores above zero, and the affinity for a query of several terms  *)
(* is the maximum over its terms.                                          *)
(***************************************************************************)
\* The term occurs in the name at position p.
OccursAt(lower, term, p) ==
    /\ p + Len(term) - 1 <= Len(lower)
    /\ SubSeq(lower, p, p + Len(term) - 1) = term

Occurs(lower, term) == \E p \in 1..Len(lower) : OccursAt(lower, term, p)

\* The term occurs as whole words: nothing but a space, or an end of the name,
\* on either side of it.
StandaloneWord(lower, term) ==
    \E p \in 1..Len(lower) :
        /\ OccursAt(lower, term, p)
        /\ p = 1 \/ lower[p - 1] = " "
        /\ p + Len(term) - 1 = Len(lower) \/ lower[p + Len(term)] = " "

\* The tier of a name for a term: 4 exact, 3 prefix, 2 standalone word,
\* 1 substring, 0 no match.
Tier(lower, term) ==
    IF lower = term THEN 4
    ELSE IF OccursAt(lower, term, 1) THEN 3
    ELSE IF StandaloneWord(lower, term) THEN 2
    ELSE IF Occurs(lower, term) THEN 1
    ELSE 0

LowerNames == {toLowerCase(documents[i].displayName) : i \in DOMAIN documents}
TermsOfQuery == Range(LowerTerms)
WordsOf(term) == NonEmpty(split(term, Whitespace))
\* The per-word fallback decides the score of the name for the term.
FallbackUsed(lower, term) ==
    /\ Tier(lower, term) = 0
    /\ \E i \in DOMAIN WordsOf(term) : Occurs(lower, WordsOf(term)[i])

C23_Tiered ==
    SearchDone =>
        /\ \A n1, n2 \in LowerNames : \A t1, t2 \in TermsOfQuery :
              /\ Tier(n1, t1) > Tier(n2, t2)
                    => ScoreForTerm(n1, t1) > ScoreForTerm(n2, t2)
              /\ (Tier(n1, t1) > 0 /\ FallbackUsed(n2, t2))
                    => ScoreForTerm(n1, t1) > ScoreForTerm(n2, t2)
        /\ \A n \in LowerNames : \A t \in TermsOfQuery :
              /\ FallbackUsed(n, t) => (Len(WordsOf(t)) > 1 /\ ScoreForTerm(n, t) > 0)
              /\ (Tier(n, t) = 0 /\ ~FallbackUsed(n, t)) => ScoreForTerm(n, t) = 0
        /\ \A i \in DOMAIN documents :
              Affinity(documents[i]) =
                  MaxOf({ScoreForTerm(toLowerCase(documents[i].displayName), t)
                         : t \in TermsOfQuery})


(***************************************************************************)
(* C24.  In the result of groupSettings, children whose parent is present  *)
(* are nested, not top-level: every setting whose rootDefinitionId names   *)
(* another setting of the input array that is not a synthetic container,   *)
(* and whose path differs from that parent's, is in a child list and is    *)
(* not an element of rootSettings, also when the named parent is itself a  *)
(* non-root setting or appears later in the input array.                   *)
(***************************************************************************)
\* The settings of the input that the rootDefinitionId of s names.
ParentsOf(s) == {q \in InputSettings : q.id = s.rootDefinitionId}
AllChildren == UNION {ChildrenOf(k) : k \in ChildKeys}

C24_ChildrenNested ==
    GroupDone =>
        \A s \in InputSettings :
            ( /\ HasParentRef(s)
              /\ ParentsOf(s) # {}
              /\ \A q \in ParentsOf(s) :
                    ~isSyntheticGroupContainer(q) /\ getCspPath(q) # getCspPath(s) )
                => (s \in AllChildren /\ s \notin RootRows)

(***************************************************************************)
(* C28.  In the result of groupSettings, every key of childMap that has a  *)
(* non-empty child list is the id of an element of rootSettings, so every  *)
(* nested child is reachable from a visible top-level row, also after a    *)
(* root that has children of its own was re-parented under a collection    *)
(* header.                                                                 *)
(***************************************************************************)
C28_KeysAreRootRows ==
    GroupDone =>
        \A k \in ChildKeys :
            grouping.childMap[k] # <<>> => \E r \in RootRows : r.id = k

(***************************************************************************)
(* C29.  For an input array with pairwise distinct ids, groupSettings      *)
(* loses and duplicates nothing: every input setting appears exactly once  *)
(* across rootSettings and all childMap lists, except root synthetic       *)
(* containers and children whose path equals their present root parent's   *)
(* path, which appear nowhere.                                             *)
(***************************************************************************)
DistinctIds ==
    \A i, j \in DOMAIN settings : i # j => settings[i].id # settings[j].id

CountIn(list, s) == Cardinality({i \in DOMAIN list : list[i] = s})
\* Occurrences of s among the top-level rows and the child lists.
Occurrences(s) ==
    CountIn(grouping.rootSettings, s)
        + SumOver([k \in ChildKeys |-> CountIn(grouping.childMap[k], s)], ChildKeys)

RootSynthetic(s) == isRootSetting(s) /\ isSyntheticGroupContainer(s)
\* The parent of s is in the input, is a root setting and not a synthetic
\* container, and has the path of s.
SamePathAsRootParent(s) ==
    /\ HasParentRef(s)
    /\ \E q \in ParentsOf(s) :
          /\ isRootSetting(q)
          /\ ~isSyntheticGroupContainer(q)
          /\ getCspPath(q) = getCspPath(s)

C29_NothingLostOrDuplicated ==
    (GroupDone /\ DistinctIds) =>
        \A s \in InputSettings :
            Occurrences(s) =
                IF RootSynthetic(s) \/ SamePathAsRootParent(s) THEN 0 ELSE 1

(***************************************************************************)
(* C30.  The grouping computed by groupSettings does not depend on the     *)
(* order of the input array: for any array with distinct ids and any       *)
(* permutation of it, the set of ids in rootSettings and the set of child  *)
(* ids under each childMap key are the same.                               *)
(***************************************************************************)
Orderings(n) == {f \in [1..n -> 1..n] : \A i, j \in 1..n : i # j => f[i] # f[j]}
Permuted(arr, f) == [i \in DOMAIN arr |-> arr[f[i]]]
IdSet(list) == {list[i].id : i \in DOMAIN list}
\* The keys that hold a child, and the ids held under a key.
KeysOf(g) == {k \in DOMAIN g.childMap : g.childMap[k] # <<>>}
ChildIds(g, k) == IF k \in DOMAIN g.childMap THEN IdSet(g.childMap[k]) ELSE {}
SameGrouping(g, h) ==
    /\ IdSet(g.rootSettings) = IdSet(h.rootSettings)
    /\ \A k \in KeysOf(g) \cup KeysOf(h) : ChildIds(g, k) = ChildIds(h, k)

C30_OrderIndependent ==
    (GroupDone /\ DistinctIds) =>
        \A f \in Orderings(Len(settings)) :
            SameGrouping(groupSettings(Permuted(settings, f)), grouping)


(***************************************************************************)
(* C27.  After buildCategoryTree, no two siblings (children of the same    *)
(* node, or two roots) have the same display name, for every input,        *)
(* including groups of three or more same-named siblings in which only     *)
(* some members share metadata or several members share the same           *)
(* platforms.                                                              *)
(***************************************************************************)
DistinctNames(sibs) ==
    \A i, j \in DOMAIN sibs :
        i # j => tree.nodes[sibs[i]].displayName # tree.nodes[sibs[j]].displayName

C27_SiblingNamesDistinct ==
    TreeDone =>
        /\ DistinctNames(tree.roots)
        /\ \A x \in Forest : DistinctNames(tree.nodes[x].children)


(***************************************************************************)
(*                 S E A R C H   I N D E X   L O A D E R                   *)
(***************************************************************************)
\* ---- bounds ----
NumCallers == 2     \* callers of preloadIndex, ensureIndex and search
MaxLoads == 3       \* load attempts of a behaviour
NumDocs == 2        \* entries of search-index.json

\* The documents of search-index.json, by id.
IndexDocs == 1..NumDocs
\* "let index: any = null": no index object.
NoIndex == [present |-> FALSE, added |-> {}]
\* "let loadPromise = null", and the promise of a call that returns at once.
NoPromise == 0
NoSaw == [queried |-> FALSE, index |-> NoIndex]
IdleCaller ==
    [kind |-> "none", state |-> "idle", promise |-> NoPromise, blank |-> FALSE,
     saw |-> NoSaw]
\* The awaits of the load, in order: import('flexsearch'), fetch, res.json().
InFlightStages == {"import", "fetch", "json"}

\* The catch block of the load with "index = null" lost.
catchReset_KeepIndex(l) == [l EXCEPT !.loadPromise = NoPromise]

\* The catch block of the load with "loadPromise = null" lost.
catchReset_KeepPromise(l) == [l EXCEPT !.index = NoIndex]

\* catch (err) { loadPromise = null; index = null; throw err; }
catchReset(l) == [l EXCEPT !.loadPromise = NoPromise, !.index = NoIndex]

\* The load i throws: the catch block runs and its promise rejects.
LoadFails(l, i) ==
    [catchReset(l) EXCEPT !.stages[i] = "failed", !.promises[i] = "rejected"]

\* The body of ensureIndex up to its return: the promise the caller awaits
\* (NoPromise when the index is there) and the module state after the call.
ensureIndex(l) ==
    IF l.index.present THEN [l |-> l, promise |-> NoPromise]
    ELSE IF l.loadPromise # NoPromise THEN [l |-> l, promise |-> l.loadPromise]
    ELSE LET id == Len(l.promises) + 1
         IN [l |-> [l EXCEPT !.promises = Append(@, "pending"),
                             !.stages = Append(@, "import"),
                             !.loadPromise = id],
             promise |-> id]

\* A caller calls ensureIndex and awaits what it returns.
Call(l, c, kind, blank) ==
    LET r == ensureIndex(l)
    IN [r.l EXCEPT !.callers[c] =
            [kind |-> kind, state |-> "waiting", promise |-> r.promise,
             blank |-> blank, saw |-> NoSaw]]

\* A new load is started only below the bound on load attempts.
CanCall(c) ==
    /\ comp = "loader"
    /\ loader.callers[c].state # "waiting"
    /\ (~loader.index.present /\ loader.loadPromise = NoPromise)
          => Len(loader.promises) < MaxLoads

Settled(l, p) == IF p = NoPromise THEN TRUE ELSE l.promises[p] # "pending"
Rejected(l, p) == p # NoPromise /\ l.promises[p] = "rejected"

\* The continuation of a caller after its await: preloadIndex swallows a
\* rejection, ensureIndex and search pass it on; search returns [] for a
\* blank query and queries the index otherwise.
resume(l, c) ==
    LET me == l.callers[c]
    IN IF Rejected(l, me.promise)
       THEN [l EXCEPT !.callers[c].state =
                         IF me.kind = "preload" THEN "done" ELSE "failed"]
       ELSE IF me.kind = "search" /\ ~me.blank
            THEN [l EXCEPT !.callers[c].state = "done",
                           !.callers[c].saw = [queried |-> TRUE, index |-> l.index]]
            ELSE [l EXCEPT !.callers[c].state = "done"]

\* What the synchronous tail of the load does once res.json() has resolved:
\* it completes, or the constructor is missing, or index.add throws after
\* some documents were added.
BuildOutcomes ==
    {[ok |-> TRUE, created |-> TRUE, added |-> IndexDocs]}
        \cup {[ok |-> FALSE, created |-> FALSE, added |-> {}]}
        \cup {[ok |-> FALSE, created |-> TRUE, added |-> 1..k] : k \in 0..(NumDocs - 1)}

buildIndex(l, i, o) ==
    LET l1 == IF o.created
              THEN [l EXCEPT !.index = [present |-> TRUE, added |-> o.added]]
              ELSE l
    IN IF o.ok
       THEN [l1 EXCEPT !.stages[i] = "ok", !.promises[i] = "resolved"]
       ELSE LoadFails(l1, i)

LoaderUnchanged ==
    UNCHANGED <<comp, pc, treeVars, groupVars, searchVars, differVars, barVars, buildVars>>

LoaderInit ==
    /\ comp = "loader"
    /\ pc = "input"
    /\ loader = [index |-> NoIndex, loadPromise |-> NoPromise, promises |-> <<>>,
                 stages |-> <<>>, callers |-> [c \in 1..NumCallers |-> IdleCaller]]
    /\ categories = <<>>
    /\ settingsCountMap = <<>>
    /\ tree = NoTree
    /\ settings = <<>>
    /\ grouping = NoGrouping
    /\ SearchIdle
    /\ DifferIdle
    /\ BarIdle
    /\ BuildIdle

\* preloadIndex()
PreloadIndex(c) ==
    /\ CanCall(c)
    /\ loader' = Call(loader, c, "preload", FALSE)
    /\ LoaderUnchanged

\* await ensureIndex() by a caller of its own
EnsureIndex(c) ==
    /\ CanCall(c)
    /\ loader' = Call(loader, c, "ensure", FALSE)
    /\ LoaderUnchanged

\* search(query, limit), up to its await
SearchCall(c) ==
    /\ CanCall(c)
    /\ \E blank \in BOOLEAN : loader' = Call(loader, c, "search", blank)
    /\ LoaderUnchanged

\* import('flexsearch') resolves and fetch is called
ImportResolved(i) ==
    /\ comp = "loader"
    /\ loader.stages[i] = "import"
    /\ loader' = [loader EXCEPT !.stages[i] = "fetch"]
    /\ LoaderUnchanged

\* fetch resolves with res.ok and res.json() is called
FetchResolved(i) ==
    /\ comp = "loader"
    /\ loader.stages[i] = "fetch"
    /\ loader' = [loader EXCEPT !.stages[i] = "json"]
    /\ LoaderUnchanged

\* res.json() resolves: documents, the constructor, the index, the adds
JsonResolved(i) ==
    /\ comp = "loader"
    /\ loader.stages[i] = "json"
    /\ \E o \in BuildOutcomes : loader' = buildIndex(loader, i, o)
    /\ LoaderUnchanged

\* an await of the load rejects, or the response is not ok
LoadRejected(i) ==
    /\ comp = "loader"
    /\ loader.stages[i] \in InFlightStages
    /\ loader' = LoadFails(loader, i)
    /\ LoaderUnchanged

\* the awaited promise has settled and the caller goes on
Resume(c) ==
    /\ comp = "loader"
    /\ loader.callers[c].state = "waiting"
    /\ Settled(loader, loader.callers[c].promise)
    /\ loader' = resume(loader, c)
    /\ LoaderUnchanged

LoaderNext ==
    \/ \E c \in 1..NumCallers : PreloadIndex(c)
    \/ \E c \in 1..NumCallers : EnsureIndex(c)
    \/ \E c \in 1..NumCallers : SearchCall(c)
    \/ \E c \in 1..NumCallers : Resume(c)
    \/ \E i \in DOMAIN loader.stages : ImportResolved(i)
    \/ \E i \in DOMAIN loader.stages : FetchResolved(i)
    \/ \E i \in DOMAIN loader.stages : JsonResolved(i)
    \/ \E i \in DOMAIN loader.stages : LoadRejected(i)

LoaderSpec == LoaderInit /\ [][LoaderNext]_vars

(***************************************************************************)
(* Index loader: vocabulary of the claims.                                 *)
(***************************************************************************)
Loading == comp = "loader"
Callers == 1..NumCallers
Loads == DOMAIN loader.stages
InFlight == {i \in Loads : loader.stages[i] \in InFlightStages}
FailedLoads == {i \in Loads : loader.stages[i] = "failed"}
CompleteIndex == [present |-> TRUE, added |-> IndexDocs]

(***************************************************************************)
(* C25.  search never queries an index that is absent or only partly       *)
(* populated: for every interleaving of preloadIndex, ensureIndex and      *)
(* search calls, including load failures followed by retries, the index    *)
(* query in search runs only after a load has created the index and added  *)
(* every document to it, and concurrent callers share one in-flight load   *)
(* instead of building a second index.                                     *)
(***************************************************************************)
C25_QueriesLoadedIndex ==
    Loading =>
        /\ \A c \in Callers :
              loader.callers[c].saw.queried
                  => /\ loader.callers[c].saw.index = CompleteIndex
                     /\ \E i \in Loads : loader.stages[i] = "ok"
        /\ Cardinality(InFlight) <= 1
        /\ Cardinality({i \in Loads : loader.stages[i] = "ok"}) <= 1
        /\ \A c \in Callers :
              ( /\ loader.callers[c].state = "waiting"
                /\ ~Settled(loader, loader.callers[c].promise) )
                  => InFlight = {loader.callers[c].promise}

\* After a failed load, two callers waited for the same retry and the
\* search among them queried the index.
C25_Witness ==
    /\ Loading
    /\ FailedLoads # {}
    /\ loader.callers[1].promise = loader.callers[2].promise
    /\ loader.callers[1].promise # NoPromise
    /\ \A c \in Callers : loader.callers[c].state = "done"
    /\ \E c \in Callers : loader.callers[c].saw.queried

(***************************************************************************)
(* C26.  After an index load fails, ensureIndex resets its state (no       *)
(* index, no stored promise), so that the next ensureIndex, preloadIndex   *)
(* or search call starts a fresh load attempt instead of returning the     *)
(* failed promise, and a later successful attempt makes the index          *)
(* permanently available.                                                  *)
(***************************************************************************)
\* A load fails in this step.
FailsNow == \E i \in InFlight : loader'.stages[i] = "failed"
\* Caller c calls in this step.
CallsNow(c) == loader.callers[c].state # "waiting" /\ loader'.callers[c].state = "waiting"
\* The stored promise is never a rejected one.
NoFailedPromiseStored ==
    loader.loadPromise # NoPromise => loader.promises[loader.loadPromise] # "rejected"

C26_Step ==
    Loading =>
        /\ FailsNow => (loader'.index = NoIndex /\ loader'.loadPromise = NoPromise)
        /\ \A c \in Callers :
              CallsNow(c) =>
                  /\ ~Rejected(loader', loader'.callers[c].promise)
                  /\ (~loader.index.present /\ loader.loadPromise = NoPromise)
                        => /\ Len(loader'.promises) = Len(loader.promises) + 1
                           /\ loader'.callers[c].promise = Len(loader'.promises)
                           /\ loader'.stages[Len(loader'.promises)] = "import"
        /\ loader.index = CompleteIndex => loader'.index = CompleteIndex
        /\ NoFailedPromiseStored

C26_RetryAfterFailure == [][C26_Step]_vars

\* A load failed, a later one succeeded and a search queried its index.
C26_Witness ==
    /\ Loading
    /\ FailedLoads # {}
    /\ loader.index = CompleteIndex
    /\ \E i \in Loads : loader.stages[i] = "ok" /\ \E j \in FailedLoads : j < i
    /\ \E c \in Callers : loader.callers[c].saw.queried /\ loader.callers[c].promise = NoPromise


(***************************************************************************)
(*               B U I L D - S E A R C H - I N D E X                       *)
(***************************************************************************)
\* ---- bounds ----
MaxBuildSettings == 2    \* settings of data/settings.json
MaxBuildCats == 2        \* categories of data/categories.json

\* An artifact on disk: absent, left by an earlier run, or written by this run.
AbsentArtifact == [state |-> "absent", data |-> <<>>]
OldArtifact == [state |-> "old", data |-> <<>>]
Written(data) == [state |-> "new", data |-> data]

\* getScope(baseUri)
getScope(baseUri) ==
    IF baseUri = NoUri THEN "unknown"
    ELSE IF \E i \in DOMAIN baseUri : baseUri[i] = "Device" THEN "device"
    ELSE IF \E i \in DOMAIN baseUri : baseUri[i] = "User" THEN "user"
    ELSE "unknown"

\* getSettingType(odataType)
getSettingType(odataType) ==
    IF odataType = ChoiceType THEN "choice"
    ELSE IF odataType = GroupCollectionType THEN "group"
    ELSE "unknown"

\* categoryNameMap.get(id) || 'Unknown Category'
UnknownCategory == Name("Unknown Category")
categoryNameMap(cats, id) ==
    IF id \in DOMAIN cats /\ cats[id].displayName.base # Missing
    THEN cats[id].displayName
    ELSE UnknownCategory

\* A setting counts as visible when it is a root, or a child whose parent is
\* absent or has another path.
Visible(arr, s) ==
    \/ isRootSetting(s)
    \/ ~HasId(arr, s.rootDefinitionId)
    \/ getCspPath(s) # getCspPath(settingById(arr, s.rootDefinitionId))

\* settingsCountMap.get(id) || 0 after the counting loop
CountVisible(arr, id) ==
    Cardinality({i \in DOMAIN arr : arr[i].categoryId = id /\ Visible(arr, arr[i])})

\* The search entries: every setting but the setting groups.
searchEntries(arr, cats) ==
    LET kept == SelectSeq(arr, LAMBDA s : ~IsGroupCollection(s))
    IN [i \in DOMAIN kept |->
           [id |-> kept[i].id,
            displayName |-> kept[i].displayName,
            categoryId |-> kept[i].categoryId,
            categoryName |-> categoryNameMap(cats, kept[i].categoryId),
            scope |-> getScope(kept[i].baseUri),
            settingType |-> getSettingType(kept[i].odataType)]]

\* sortTree: a.displayName.localeCompare(...) throws a TypeError as soon as
\* the comparator is called on siblings that have no displayName.
sortTreeThrows(cats) ==
    \E i, j \in DOMAIN cats :
        /\ i # j
        /\ cats[i].displayName.base = Missing
        /\ cats[j].displayName.base = Missing
        /\ IsRootRef(cats[i]) /\ IsRootRef(cats[j])

Failed(b, artifacts) == [b EXCEPT !.outcome = "failed", !.artifacts = artifacts]

\* main() of build-search-index; io names the write that fails, if any.
buildMain(b, io) ==
    IF ~b.settingsFile.exists \/ ~b.categoriesFile.exists
    THEN Failed(b, b.artifacts)
    ELSE LET arr == b.settingsFile.data
             cats == b.categoriesFile.data
             counts == [id \in DOMAIN cats |-> CountVisible(arr, id)]
             a1 == [b.artifacts EXCEPT !.searchIndex = Written(searchEntries(arr, cats))]
             built == buildCategoryTree(cats, counts)
             a2 == [a1 EXCEPT !.categoryTree = Written(built.roots)]
             a3 == [a2 EXCEPT !.mergeMap = Written(built.mergeMap)]
         IN IF io = "searchIndex" THEN Failed(b, b.artifacts)
            ELSE IF sortTreeThrows(cats) \/ io = "categoryTree" THEN Failed(b, a1)
            ELSE IF io = "mergeMap" THEN Failed(b, a2)
            ELSE [b EXCEPT !.outcome = "ok", !.artifacts = a3]

\* ---- inputs ----
BuildSetting(i, root, kind, uri, cat) ==
    [id |-> i, rootDefinitionId |-> root, odataType |-> kind.odataType,
     displayName |-> kind.displayName, baseUri |-> uri.baseUri,
     offsetUri |-> uri.offsetUri, categoryId |-> cat]

BuildKinds == {k \in SettingKinds : k.displayName # TopLevelName}
BuildUris == {u \in SettingUris : u.baseUri # NoUri /\ ~HasMarker(u.offsetUri)}

\* settings.json: up to MaxBuildSettings settings, ids 1.., each a root or a
\* child of setting 1.
BuildSettingLists ==
    UNION { { [i \in 1..n |-> BuildSetting(i, root[i], kd[i], ur[i], ct[i])] :
                root \in [1..n -> {NoRoot, 1}],
                kd \in [1..n -> BuildKinds],
                ur \in [1..n -> BuildUris],
                ct \in [1..n -> 1..MaxBuildCats] }
            : n \in 0..MaxBuildSettings }

\* categories.json: up to MaxBuildCats root categories, all of them named or,
\* for a list of two, none of them.
BuildCategoryLists ==
    UNION { { [i \in 1..n |-> Category(i, nm[i], NoParent, mt[i])] :
                nm \in [1..n -> BaseNames],
                mt \in [1..n -> DeepMetas] }
            : n \in 0..MaxBuildCats }
      \cup { [i \in 1..MaxBuildCats |-> Category(i, Missing, NoParent, mt[i])] :
                mt \in [1..MaxBuildCats -> DeepMetas] }

\* The writes of main that may fail.
IoFailures == {"none", "searchIndex", "categoryTree", "mergeMap"}

BuildInit ==
    /\ comp = "build"
    /\ pc = "input"
    /\ \E sf \in {AbsentFile} \cup {File(d) : d \in BuildSettingLists} :
       \E cf \in {AbsentFile} \cup {File(d) : d \in BuildCategoryLists} :
       \E old \in {AbsentArtifact, OldArtifact} :
          build = [settingsFile |-> sf, categoriesFile |-> cf,
                   artifacts |-> [searchIndex |-> old, categoryTree |-> old,
                                  mergeMap |-> old],
                   outcome |-> "none"]
    /\ categories = <<>>
    /\ settingsCountMap = <<>>
    /\ tree = NoTree
    /\ settings = <<>>
    /\ grouping = NoGrouping
    /\ SearchIdle
    /\ DifferIdle
    /\ BarIdle
    /\ LoaderIdle

\* npx tsx scripts/build-search-index.ts
BuildSearchIndex ==
    /\ comp = "build"
    /\ pc = "input"
    /\ \E io \in IoFailures : build' = buildMain(build, io)
    /\ pc' = "done"
    /\ UNCHANGED <<comp, treeVars, groupVars, searchVars, differVars, barVars, loaderVars>>

BuildNext == BuildSearchIndex

BuildSpec == BuildInit /\ [][BuildNext]_vars

(***************************************************************************)
(* C21.  Each build-time component either completes and writes its whole   *)
(* artifact set or aborts before writing anything: a build-search-index    *)
(* run that fails leaves none of search-index.json, category-tree.json     *)
(* and category-merge-map.json newly written (and a differ run that fails  *)
(* leaves neither the changelog nor the previous-snapshot files changed).  *)
(***************************************************************************)
BuildDone == comp = "build" /\ pc = "done"
NewlyWritten ==
    {f \in {"searchIndex", "categoryTree", "mergeMap"} : build.artifacts[f].state = "new"}

C21_AllOrNothing ==
    BuildDone =>
        /\ build.outcome = "failed" => NewlyWritten = {}
        /\ build.outcome = "ok" => NewlyWritten = {"searchIndex", "categoryTree", "mergeMap"}

====
